---- MODULE Spec2Model ----
(***************************************************************************)
(* Tweak-My-Meal: the Orchestrator, the session state machine and the      *)
(* preference / profile stores.                                            *)
(*                                                                         *)
(* Every coroutine of the orchestrator is cut at the database calls it     *)
(* awaits: one action per database access, with the agent (LLM) calls that *)
(* precede the access folded into it as a nondeterministic choice of the   *)
(* agent's output.  Coroutines of different calls interleave between these *)
(* steps, as they do on the asyncio event loop.                            *)
(***************************************************************************)
EXTENDS Bags, Integers, Sequences, FiniteSets, TLC

\* ------------------------------------------------------------------ bounds
MaxCalls == 3        \* orchestrator calls issued in one behaviour
MaxFeedback == 2     \* process_feedback calls issued in one behaviour
MaxRequests == 1     \* requests to the other routes in one behaviour
MaxLearn == 1        \* process_feedback calls of the caller of LearnSpec
MaxReplays == 3      \* submissions of one and the same feedback
MaxRetries == 2      \* largest retry budget given to analyze_with_retry
MaxRows == 11        \* most rows of one kind stored for the user

\* --------------------------------------------------------- python values
None == "None"
NoneD == [k \in {} |-> k]                 \* None where a dict is expected
Get(d, k, default) == IF k \in DOMAIN d THEN d[k] ELSE default
Range(s) == {s[i] : i \in DOMAIN s}

\* ------------------------------------------------------ IEEE-754 doubles
\* Strengths, deltas and saliences are Python floats and SQLite REALs.  A
\* double is written the way float.hex() writes it: sign, leading digit,
\* thirteen hexadecimal digits of fraction, exponent of two.  Addition is
\* the exact sum rounded to nearest, ties to even (no infinities, NaNs or
\* subnormals: the values here stay far from them).
Float(neg, exp, frac) == [neg |-> neg, int |-> 1, frac |-> frac, exp |-> exp]
FloatZero ==
    [neg |-> FALSE, int |-> 0, frac |-> [j \in 1..13 |-> 0], exp |-> 0]

\* Exact integers of up to 112 bits, as four limbs of 28 bits, the least
\* significant first.
Limb == 2^28
Wide(lo, hi) == <<lo, hi, 0, 0>>
LimbAt(n, i) == IF i \in 1..4 THEN n[i] ELSE 0

\* The 53-bit mantissa of x: the leading digit and the first six digits of
\* the fraction in the upper limb, the last seven digits in the lower one.
RECURSIVE HexValue(_, _, _)
HexValue(frac, from, to) ==
    IF to < from THEN 0
    ELSE 16 * HexValue(frac, from, to - 1) + frac[to]

Mantissa(x) ==
    Wide(HexValue(x.frac, 7, 13), x.int * 2^24 + HexValue(x.frac, 1, 6))

\* n * 2^d and n \div 2^d
ShiftLeft(n, d) ==
    LET q == d \div 28
        r == d % 28
    IN [i \in 1..4 |->
           (LimbAt(n, i - q) % 2^(28 - r)) * 2^r
               + LimbAt(n, i - q - 1) \div 2^(28 - r)]

ShiftRight(n, d) ==
    LET q == d \div 28
        r == d % 28
    IN [i \in 1..4 |->
           LimbAt(n, i + q) \div 2^r
               + (LimbAt(n, i + q + 1) % 2^r) * 2^(28 - r)]

RECURSIVE AddFrom(_, _, _, _)
AddFrom(a, b, i, carry) ==
    IF i > 4 THEN <<>>
    ELSE LET s == a[i] + b[i] + carry
         IN <<s % Limb>> \o AddFrom(a, b, i + 1, s \div Limb)

RECURSIVE SubFrom(_, _, _, _)
SubFrom(a, b, i, borrow) ==
    IF i > 4 THEN <<>>
    ELSE LET d == a[i] - b[i] - borrow
         IN <<(d + Limb) % Limb>>
                \o SubFrom(a, b, i + 1, IF d < 0 THEN 1 ELSE 0)

\* a < b, decided at the highest limb where they differ (i and down).
RECURSIVE LessFrom(_, _, _)
LessFrom(a, b, i) ==
    IF i = 0 THEN FALSE
    ELSE IF a[i] # b[i] THEN a[i] < b[i]
    ELSE LessFrom(a, b, i - 1)

\* The number of bits of the integer v < 2^28, and of the wide integer n.
RECURSIVE Bits(_)
Bits(v) == IF v = 0 THEN 0 ELSE 1 + Bits(v \div 2)

RECURSIVE TopLimb(_, _)
TopLimb(n, i) ==
    IF i = 0 THEN 0 ELSE IF n[i] # 0 THEN i ELSE TopLimb(n, i - 1)

BitLength(n) ==
    LET t == TopLimb(n, 4)
    IN IF t = 0 THEN 0 ELSE 28 * (t - 1) + Bits(n[t])

\* Bit k of n (bit 0 is the lowest), and whether a bit below bit k is set.
BitAt(n, k) == (n[k \div 28 + 1] \div 2^(k % 28)) % 2
AnyBelow(n, k) ==
    \/ n[k \div 28 + 1] % 2^(k % 28) # 0
    \/ \E i \in 1..(k \div 28) : n[i] # 0

\* The double with the 53-bit mantissa m and the exponent exp of its
\* leading bit.
FromMantissa(neg, m, exp) ==
    [neg |-> neg, int |-> 1,
     frac |-> [j \in 1..13 |->
                  IF j <= 6 THEN (m[2] \div 16^(6 - j)) % 16
                  ELSE (m[1] \div 16^(13 - j)) % 16],
     exp |-> exp]

\* n * 2^unit, rounded to a double.
RoundBits(neg, n, unit) ==
    LET L == BitLength(n)
    IN IF L = 0 THEN FloatZero
       ELSE IF L <= 53
       THEN FromMantissa(neg, ShiftLeft(n, 53 - L), unit + L - 1)
       ELSE LET d == L - 53
                kept == ShiftRight(n, d)
                sticky == AnyBelow(n, d - 1)
                up == BitAt(n, d - 1) = 1 /\ (sticky \/ kept[1] % 2 = 1)
                inc == AddFrom(kept, Wide(1, 0), 1, 0)
            IN IF ~up THEN FromMantissa(neg, kept, unit + L - 1)
               ELSE IF inc[2] = 2^25
               THEN FromMantissa(neg, Wide(0, 2^24), unit + L)
               ELSE FromMantissa(neg, inc, unit + L - 1)

\* x + y of two doubles
FloatAdd(x, y) ==
    IF x.int = 0 THEN y
    ELSE IF y.int = 0 THEN x
    ELSE IF x.exp - y.exp > 58 THEN x
    ELSE IF y.exp - x.exp > 58 THEN y
    ELSE LET lo == IF x.exp < y.exp THEN x.exp ELSE y.exp
             px == ShiftLeft(Mantissa(x), x.exp - lo)
             py == ShiftLeft(Mantissa(y), y.exp - lo)
         IN IF x.neg = y.neg
            THEN RoundBits(x.neg, AddFrom(px, py, 1, 0), lo - 52)
            ELSE IF px = py THEN FloatZero
            ELSE IF LessFrom(px, py, 4)
            THEN RoundBits(y.neg, SubFrom(py, px, 1, 0), lo - 52)
            ELSE RoundBits(x.neg, SubFrom(px, py, 1, 0), lo - 52)

FloatAbs(x) == [x EXCEPT !.neg = FALSE]

SessionIds == {"s1"}                      \* the session ids of the clients
ChatRow == "chat_user_0001"               \* f"chat_{user_id}"
ReflectionsRow == "reflections_user_0001" \* f"reflections_{user_id}"
SessionRows == SessionIds \cup {ChatRow, ReflectionsRow}
KeptReflections == 50
Tasks == {1, 2}      \* coroutine slots for the caller's operations

NoText == ""                              \* None or the empty string
NoMaxTime == 0                            \* no client max_time_minutes
\* The requests of a chat turn: ingredients as text, a meal as text with a
\* time limit, a picture alone, and an empty request.  image_paths <<>> is
\* the None the router passes when nothing was uploaded.
TurnArgs ==
    { [text |-> "i have rice", image_paths |-> <<>>, max_time |-> NoMaxTime],
      [text |-> "pasta", image_paths |-> <<>>, max_time |-> 20],
      [text |-> NoText, image_paths |-> <<"img1">>, max_time |-> NoMaxTime],
      [text |-> NoText, image_paths |-> <<>>, max_time |-> NoMaxTime] }
SugNames == <<"sug_1", "sug_2", "sug_3", "sug_4">>
RequestIds == {"sug_1", "sug_2", "sug_9"}
Modifications == {"tofu", "tofu, peas"}

VARIABLES
    session_state,   \* the session_state table: session_id -> state_json
    meals,           \* the meals table, in order of creation
    task,            \* the orchestrator calls in flight, with their locals
    job,             \* the background image jobs in flight
    ncalls,          \* orchestrator calls issued so far
    response,        \* the response being handed to the caller, if any
    consumed,        \* history: per session, a selection has succeeded and
                     \* no chat turn or modification was issued or running since
    profile,         \* the user_profile row of the user, or None
    preference_facts,\* the preference_facts table: fact_key -> strength
    outcomes,        \* the meal_outcomes table: meal_id -> outcome
    memory_items,    \* the memory_items table, in order of creation
    vector_ids,      \* the memory ids held by the vector store
    fb,              \* the process_feedback calls in flight
    conv,            \* the request to one of the other routes in flight
    clock,           \* the time of the clock at its next reading
    nfeedback,       \* process_feedback calls issued so far
    nrequests,       \* requests issued so far to the other routes
    applied          \* history: fact_key -> the deltas applied, in order

sessionVars == <<session_state, task, job, ncalls, consumed>>
feedbackVars == <<profile, preference_facts, outcomes, memory_items,
                  vector_ids, fb, conv, clock, nfeedback, nrequests, applied>>
vars == <<session_state, meals, task, job, ncalls, response, consumed,
          profile, preference_facts, outcomes, memory_items, vector_ids,
          fb, conv, clock, nfeedback, nrequests, applied>>

\* ------------------------------------------------------------ the agents
\* VisionAgent.analyze_with_retry: a validated LLM answer, or the fallback.
VisionFallback ==
    [kind |-> "unknown", follow_up_questions |-> <<"describe the image">>]

VisionOutcomes ==
    { [kind |-> "meal_photo", follow_up_questions |-> <<>>],
      [kind |-> "unknown", follow_up_questions |-> <<>>],
      VisionFallback }

HasIngredientKeyword(text) == text = "i have rice"

\* MealUnderstandingAgent._fallback_normalize
FallbackNormalize(text, vision_result) ==
    IF vision_result # NoneD /\ vision_result.kind # "unknown"
    THEN [input_kind |-> vision_result.kind,
          ingredients |-> <<>>,
          max_time_minutes |-> NoMaxTime,
          missing_info_questions |-> vision_result.follow_up_questions]
    ELSE IF text # NoText
    THEN IF HasIngredientKeyword(text)
         THEN [input_kind |-> "text_ingredients",
               ingredients |-> <<text>>,
               max_time_minutes |-> NoMaxTime,
               missing_info_questions |-> <<>>]
         ELSE [input_kind |-> "text_meal",
               ingredients |-> <<>>,
               max_time_minutes |-> NoMaxTime,
               missing_info_questions |-> <<>>]
    ELSE [input_kind |-> "unknown",
          ingredients |-> <<>>,
          max_time_minutes |-> NoMaxTime,
          missing_info_questions |-> <<"tell me more">>]

\* The validated answers of the normalization LLM call.
LLMNormalized ==
    { [input_kind |-> "text_meal", ingredients |-> <<>>,
       max_time_minutes |-> NoMaxTime, missing_info_questions |-> <<>>],
      [input_kind |-> "unknown", ingredients |-> <<>>,
       max_time_minutes |-> NoMaxTime, missing_info_questions |-> <<>>],
      [input_kind |-> "unknown", ingredients |-> <<>>,
       max_time_minutes |-> NoMaxTime,
       missing_info_questions |-> <<"which meal">>] }

\* MealUnderstandingAgent.normalize: a validated LLM answer (one of
\* I.normalized), or the fallback when the call or the validation fails.
NormalizeOutcomes(I, text, vision_result) ==
    I.normalized \cup {FallbackNormalize(text, vision_result)}

\* The suggestions an LLM answer can hold, before ids are filled in.
RawCurry == [suggestion_id |-> None, title |-> "curry", tags |-> <<"spicy">>]
RawSalad == [suggestion_id |-> "sug_1", title |-> "salad", tags |-> <<"quick">>]

\* An empty list, one suggestion, two with distinct ids, and two where the
\* generator reuses the id that the fill-in gives the first.
RawSuggestionLists ==
    { <<>>, <<RawCurry>>, <<RawSalad, RawCurry>>, <<RawCurry, RawSalad>> }

\* SuggestionAgent.suggest, lines 110-114: missing ids become sug_{i+1}.
FillIds(raw) ==
    [i \in DOMAIN raw |->
        IF raw[i].suggestion_id = None
        THEN [raw[i] EXCEPT !.suggestion_id = SugNames[i]]
        ELSE raw[i]]

SuggestFailure ==
    [suggestions |-> <<>>, follow_up_questions |-> <<"more details">>]

SuggestRaised == [raised |-> "ValidationError"]

\* SuggestionAgent.suggest: SuggestionsResult admits no input_kind "unknown",
\* so validation fails in the try block and again in the except block.
SuggestOutcomes(I, normalized) ==
    IF normalized.input_kind = "unknown"
    THEN {SuggestRaised}
    ELSE { [suggestions |-> FillIds(raw), follow_up_questions |-> <<>>] :
               raw \in I.raw_lists }
         \cup {SuggestFailure}

SuggestionIdsOf(suggestions) ==
    [i \in DOMAIN suggestions |-> suggestions[i].suggestion_id]

\* Variant: the minimal recipe has a title of its own.
RecipeOutcomesUntitled(selected) ==
    { [name |-> "llm recipe", warnings |-> <<>>],
      [name |-> "recipe", warnings |-> <<"Error">>] }

\* RecipeAgent.generate: a validated LLM recipe, or the minimal recipe that
\* carries the suggestion's title and a warning.
RecipeOutcomes(selected) ==
    { [name |-> "llm recipe", warnings |-> <<>>],
      [name |-> selected.title, warnings |-> <<"Error">>] }

\* ---------------------------------------------------------- responses
FollowUpResponse(questions) ==
    [kind |-> "follow_up", questions |-> questions, blocking |-> TRUE]

SuggestionsResponse(suggestions) ==
    [kind |-> "suggestions", suggestion_ids |-> SuggestionIdsOf(suggestions)]

RecipeResponse(meal_id, recipe, image_url) ==
    [kind |-> "recipe", meal_id |-> meal_id, recipe |-> recipe,
     image_url |-> image_url]

Raise(exc, msg) == [kind |-> "error", exc |-> exc, msg |-> msg]

\* ------------------------------------------------------------ the tasks
IdleTask ==
    [op |-> "none", pc |-> "idle", session_id |-> "s1", text |-> NoText,
     image_paths |-> <<>>, max_time |-> NoMaxTime, suggestion_id |-> None,
     modification |-> None, state |-> NoneD, recipe |-> NoneD, meal_id |-> 0,
     result |-> NoneD, trace |-> <<>>]

NoResponse ==
    [op |-> "none", task |-> 0, session_id |-> None, result |-> NoneD,
     trace |-> <<>>]

\* Between the orchestrator's return and the router's return there is no
\* await: no other coroutine runs while a response is being handed back.
Quiet == response = NoResponse
Free(t) == task[t].pc = "idle"
FirstFree(I, t) ==
    /\ Quiet
    /\ ncalls < I.calls
    /\ t \in I.tasks
    /\ Free(t)
    /\ \A u \in I.tasks : Free(u) => t <= u
LiveOps(op) == {t \in Tasks : task[t].op = op}
\* The image jobs in flight are a bag of coroutines: asyncio.create_task
\* gives them no name and no order.
LiveJobs == BagToSet(job)
NoJobs == EmptyBag
OneJob(j) == SetToBag({j})

\* ------------------------------------------------------------ the inputs
\* What the callers send and what the LLM calls answer, per specification.
NormalizedAsk ==
    [input_kind |-> "unknown", ingredients |-> <<>>,
     max_time_minutes |-> NoMaxTime,
     missing_info_questions |-> <<"which meal">>]

\* The pictures of a batch: each one generated and downloaded, or not.
AnyPictures == SUBSET Range(SugNames)

\* Two callers racing on one session.
RaceInputs ==
    [tasks |-> {1, 2},
     calls |-> MaxCalls,
     pictured |-> AnyPictures,
     turn_args |-> {a \in TurnArgs : a.text = "i have rice"},
     vision |-> VisionOutcomes,
     normalized |-> {NormalizedAsk},
     raw_lists |-> { <<RawSalad, RawCurry>> },
     modifications |-> {"tofu"}]

\* One caller at a time who modifies the request, with one item or two.
ModifyInputs ==
    [tasks |-> {1},
     calls |-> MaxCalls,
     pictured |-> AnyPictures,
     turn_args |-> {a \in TurnArgs : a.text = "i have rice"},
     vision |-> VisionOutcomes,
     normalized |-> {NormalizedAsk},
     raw_lists |-> { <<RawSalad, RawCurry>> },
     modifications |-> Modifications]

\* One caller at a time whose requests are answered with different lists.
BatchInputs ==
    [tasks |-> {1},
     calls |-> MaxCalls,
     pictured |-> AnyPictures,
     turn_args |-> {a \in TurnArgs : a.text = "i have rice"},
     vision |-> VisionOutcomes,
     normalized |-> {NormalizedAsk},
     raw_lists |-> { <<RawCurry>>, <<RawSalad, RawCurry>> },
     modifications |-> {"tofu"}]

\* One caller at a time, every request and every agent answer.
AgentInputs ==
    [tasks |-> {1},
     calls |-> MaxCalls - 1,
     pictured |-> AnyPictures,
     turn_args |-> TurnArgs,
     vision |-> VisionOutcomes,
     normalized |-> LLMNormalized,
     raw_lists |-> RawSuggestionLists,
     modifications |-> {"tofu"}]

\* Database.get_session_state / upsert_session_state
GetSessionState(sid) == session_state[sid]

\* Variant: the keys the new record lacks keep their stored values.
UpsertSessionStateMerged(sid, state) ==
    [session_state EXCEPT ![sid] =
        [k \in DOMAIN @ \cup DOMAIN state |->
            IF k \in DOMAIN state THEN state[k] ELSE @[k]]]

UpsertSessionState(sid, state) == [session_state EXCEPT ![sid] = state]

\* The coroutine of task t returns (or raises) `result`; `trace` lists the
\* agent calls it made and the state write it did, in order.
Return(t, result, trace) ==
    /\ task' = [task EXCEPT ![t] = IdleTask]
    /\ response' = [op |-> task[t].op, task |-> t,
                    session_id |-> task[t].session_id,
                    result |-> result, trace |-> trace]

\* asyncio.create_task(self._generate_and_save_images(session_id, suggestions))
SpawnImageJob(sid, suggestions) ==
    job (+) OneJob([pc |-> "read", session_id |-> sid,
                    suggestions |-> suggestions, state |-> NoneD])

\* The coroutine of task t has its result in hand and is suspended in an
\* await (the commit of its write, the fetch of its read) before it returns
\* or raises.
Pending(t, pc, result, trace) ==
    /\ task' = [task EXCEPT ![t].pc = pc, ![t].result = result,
                            ![t].trace = trace]
    /\ UNCHANGED response

\* The locals of a process_feedback call.
IdleFeedback ==
    [pc |-> "idle", meal_id |-> 0, liked |-> FALSE, cooked_again |-> FALSE,
     tags |-> <<>>, notes |-> None, meal |-> NoneD, profile |-> NoneD,
     memory_result |-> NoneD, i |-> 0, memory_id |-> 0,
     updated_profile |-> NoneD]

\* The locals of a request to one of the other routes.
IdleRequest ==
    [op |-> "none", pc |-> "idle", messages |-> <<>>, profile |-> NoneD,
     profile_changed |-> FALSE, updated_profile |-> NoneD,
     selected_tweaks |-> <<>>, i |-> 0, items |-> <<>>]

NoRows == [k \in {} |-> k]               \* a table without rows
NoSessions == [s \in SessionRows |-> NoneD]

\* A new user: no profile, nothing learned, no feedback given.
NothingLearned ==
    /\ preference_facts = NoRows
    /\ outcomes = NoRows
    /\ memory_items = <<>>
    /\ vector_ids = {}
    /\ fb = [t \in Tasks |-> IdleFeedback]
    /\ conv = IdleRequest
    /\ clock = 0
    /\ nfeedback = 0
    /\ nrequests = 0
    /\ applied = NoRows

NoSessionCall ==
    /\ task = [t \in Tasks |-> IdleTask]
    /\ job = NoJobs
    /\ ncalls = 0
    /\ response = NoResponse
    /\ consumed = [s \in SessionIds |-> FALSE]

Init ==
    /\ session_state = NoSessions
    /\ meals = <<>>
    /\ NoSessionCall
    /\ profile = NoneD
    /\ NothingLearned

\* ------------------------------------------------------ process_chat_turn
StartTurn(I, t) ==
    /\ FirstFree(I, t)
    /\ \E sid \in SessionIds, a \in I.turn_args :
         /\ task' = [task EXCEPT ![t] =
                    [IdleTask EXCEPT !.op = "turn", !.pc = "t_read",
                                     !.session_id = sid, !.text = a.text,
                                     !.image_paths = a.image_paths,
                                     !.max_time = a.max_time]]
            /\ consumed' = [consumed EXCEPT ![sid] = FALSE]
    /\ ncalls' = ncalls + 1
    /\ UNCHANGED <<session_state, meals, job, response>>
    /\ UNCHANGED feedbackVars

\* line 232: existing_state = await db.get_session_state(session_id)
TurnRead(t) ==
    /\ Quiet
    /\ task[t].pc = "t_read"
    /\ task' = [task EXCEPT ![t].pc = "t_run",
                            ![t].state = GetSessionState(task[t].session_id)]
    /\ UNCHANGED <<session_state, meals, job, ncalls, response, consumed>>
    /\ UNCHANGED feedbackVars

\* lines 299-300
ApplyMaxTime(normalized, max_time) ==
    IF max_time # NoMaxTime
    THEN [normalized EXCEPT !.max_time_minutes = max_time]
    ELSE normalized

\* lines 257-262
VisionFollowUpState(vision_result, imgs, text) ==
    [step |-> "awaiting_followup",
     vision_result |-> vision_result,
     image_paths |-> imgs,
     original_text |-> text]

\* Variant: the record of a pending question carries no step.
NormalizeFollowUpStateUnmarked(vision_result, imgs) ==
    [vision_result |-> vision_result,
     image_paths |-> imgs]

\* lines 286-290
NormalizeFollowUpState(vision_result, imgs) ==
    [step |-> "awaiting_followup",
     vision_result |-> vision_result,
     image_paths |-> imgs]

\* Variant: the turn that found suggestions closes the session.
AwaitingSelectionStateDone(normalized, vision_result, suggestions, imgs, text) ==
    [step |-> "done",
     last_input_kind |-> normalized.input_kind,
     vision_result |-> vision_result,
     normalized_input |-> normalized,
     suggestions |-> suggestions,
     suggestion_images |-> NoneD,
     image_paths |-> imgs,
     original_text |-> text]

\* lines 317-326
AwaitingSelectionState(normalized, vision_result, suggestions, imgs, text) ==
    [step |-> "awaiting_selection",
     last_input_kind |-> normalized.input_kind,
     vision_result |-> vision_result,
     normalized_input |-> normalized,
     suggestions |-> suggestions,
     suggestion_images |-> NoneD,
     image_paths |-> imgs,
     original_text |-> text]

\* lines 271-276: a turn that answers a pending follow-up
Answering(existing) ==
    existing # NoneD /\ Get(existing, "step", None) = "awaiting_followup"

\* Variant: the stored vision result is not taken up again.
VisionForNormalizeFresh(existing, vout) == vout

VisionForNormalize(existing, vout) ==
    IF Answering(existing) /\ Get(existing, "vision_result", NoneD) # NoneD
    THEN existing.vision_result
    ELSE vout

\* lines 278-282: the call of normalize with its arguments
NormalizeEvent(existing, text, vision_result, normalized) ==
    [ev |-> "normalize", out |-> normalized,
     vision_result |-> vision_result,
     previous_answers |-> IF Answering(existing) THEN text ELSE None]

\* Variant: the questions of the vision step are never asked.
NeedsVisionFollowUpNever(vision_result) == FALSE

\* line 254
NeedsVisionFollowUp(vision_result) ==
    /\ vision_result.kind = "unknown"
    /\ vision_result.follow_up_questions # <<>>

\* Variant: the questions of the normalization step are never asked.
NeedsNormalizeFollowUpNever(normalized) == FALSE

\* line 285
NeedsNormalizeFollowUp(normalized) ==
    /\ normalized.input_kind = "unknown"
    /\ normalized.missing_info_questions # <<>>

\* Variant: an empty suggestion list is buffered like any other.
NeedsSuggestionFollowUpNever(sres) == FALSE

\* line 309
NeedsSuggestionFollowUp(sres) ==
    /\ sres.suggestions = <<>>
    /\ sres.follow_up_questions # <<>>

\* lines 284-326: what follows the normalization step, up to the INSERT of
\* upsert_session_state; the call is then suspended in the commit
TurnAfterNormalize(t, a, vision_result, normalized0, sres, tr) ==
    IF NeedsNormalizeFollowUp(normalized0)
    THEN /\ session_state' = UpsertSessionState(a.session_id,
              NormalizeFollowUpState(vision_result, a.image_paths))
         /\ Pending(t, "t_commit",
                    FollowUpResponse(normalized0.missing_info_questions),
                    tr \o <<[ev |-> "write"]>>)
         /\ UNCHANGED <<meals, job, ncalls, consumed>>
    ELSE IF sres = SuggestRaised
    THEN /\ Return(t, Raise("ValidationError", "input_kind"),
                   tr \o <<[ev |-> "suggest", out |-> sres]>>)
         /\ UNCHANGED <<session_state, meals, job, ncalls, consumed>>
    ELSE IF NeedsSuggestionFollowUp(sres)
    THEN /\ Return(t, FollowUpResponse(sres.follow_up_questions),
                   tr \o <<[ev |-> "suggest", out |-> sres]>>)
         /\ UNCHANGED <<session_state, meals, job, ncalls, consumed>>
    ELSE /\ session_state' = UpsertSessionState(a.session_id,
              AwaitingSelectionState(ApplyMaxTime(normalized0, a.max_time),
                                     vision_result, sres.suggestions,
                                     a.image_paths, a.text))
         /\ Pending(t, "t_commit", SuggestionsResponse(sres.suggestions),
                    tr \o <<[ev |-> "suggest", out |-> sres], [ev |-> "write"]>>)
         /\ UNCHANGED <<meals, job, ncalls, consumed>>

\* lines 243-326: process_chat_turn from the vision step to its write (or
\* to its return, on the paths that write nothing)
TurnRun(I, t) ==
    /\ Quiet
    /\ task[t].pc = "t_run"
    /\ LET a == task[t]
           hasImages == a.image_paths # <<>>
       IN \E vout \in (IF hasImages THEN I.vision ELSE {NoneD}) :
            IF hasImages /\ NeedsVisionFollowUp(vout)
            THEN /\ session_state' = UpsertSessionState(a.session_id,
                      VisionFollowUpState(vout, a.image_paths, a.text))
                 /\ Pending(t, "t_commit",
                            FollowUpResponse(vout.follow_up_questions),
                            <<[ev |-> "vision", out |-> vout], [ev |-> "write"]>>)
                 /\ UNCHANGED <<meals, job, ncalls, consumed>>
            ELSE LET vision_result == VisionForNormalize(a.state, vout)
                     tr0 == IF hasImages
                            THEN <<[ev |-> "vision", out |-> vout]>>
                            ELSE <<>>
                 IN \E normalized0 \in NormalizeOutcomes(I, a.text, vision_result) :
                    \E sres \in SuggestOutcomes(I, normalized0) :
                      TurnAfterNormalize(t, a, vision_result, normalized0, sres,
                          tr0 \o <<NormalizeEvent(a.state, a.text, vision_result,
                                                  normalized0)>>)
    /\ UNCHANGED feedbackVars

\* The suggestions that a pending Suggestions result was made of.
PendingSuggestions(a) == a.trace[Len(a.trace) - 1].out.suggestions

\* lines 263-268, 291-296, 328-353: the commit is through; after the write
\* of suggestions the image job is created, then the call returns
TurnReturn(t) ==
    /\ Quiet
    /\ task[t].pc = "t_commit"
    /\ LET a == task[t]
       IN /\ job' = IF a.result.kind = "suggestions"
                    THEN SpawnImageJob(a.session_id, PendingSuggestions(a))
                    ELSE job
          /\ Return(t, a.result, a.trace)
    /\ UNCHANGED <<session_state, meals, ncalls, consumed>>
    /\ UNCHANGED feedbackVars

\* ----------------------------------------------------- process_selection
StartSelect(I, t) ==
    /\ FirstFree(I, t)
    /\ \E sid \in SessionIds, id \in RequestIds :
         task' = [task EXCEPT ![t] =
                    [IdleTask EXCEPT !.op = "select", !.pc = "s_read",
                                     !.session_id = sid,
                                     !.suggestion_id = id]]
    /\ ncalls' = ncalls + 1
    /\ UNCHANGED <<session_state, meals, job, response, consumed>>
    /\ UNCHANGED feedbackVars

\* Variant: an id that is not buffered resolves to the first suggestion.
FindSuggestionLenient(suggestions, id) ==
    IF suggestions = <<>> THEN NoneD
    ELSE IF \E i \in DOMAIN suggestions : suggestions[i].suggestion_id = id
    THEN suggestions[CHOOSE i \in DOMAIN suggestions :
                        suggestions[i].suggestion_id = id]
    ELSE suggestions[1]

\* lines 460-465: the first buffered suggestion with the id, or None
FindSuggestion(suggestions, id) ==
    IF \E i \in DOMAIN suggestions : suggestions[i].suggestion_id = id
    THEN suggestions[CHOOSE i \in DOMAIN suggestions :
                        /\ suggestions[i].suggestion_id = id
                        /\ \A k \in DOMAIN suggestions :
                             suggestions[k].suggestion_id = id => i <= k]
    ELSE NoneD

\* lines 451-468: the checks on the state that was read
SelectionError(state, id) ==
    IF state = NoneD
    THEN Raise("ValueError", "session_not_found")
    ELSE IF Get(state, "step", None) # "awaiting_selection"
    THEN Raise("ValueError", "no_pending_selection")
    ELSE IF FindSuggestion(Get(state, "suggestions", <<>>), id) = NoneD
    THEN Raise("ValueError", "suggestion_not_found")
    ELSE NoneD

\* line 452: the SELECT of get_session_state is executed; the checks of
\* lines 453-468 run on its row when the fetch has resumed the call
SelectRead(t) ==
    /\ Quiet
    /\ task[t].pc = "s_read"
    /\ LET a == task[t]
           state == GetSessionState(a.session_id)
           err == SelectionError(state, a.suggestion_id)
       IN task' = [task EXCEPT ![t].pc = IF err # NoneD THEN "s_raise"
                                                         ELSE "s_meal",
                               ![t].state = state,
                               ![t].result = err]
    /\ UNCHANGED <<session_state, meals, job, ncalls, response, consumed>>
    /\ UNCHANGED feedbackVars

\* lines 453-468: the state that was read is refused
SelectRaise(t) ==
    /\ Quiet
    /\ task[t].pc = "s_raise"
    /\ Return(t, task[t].result, <<>>)
    /\ UNCHANGED <<session_state, meals, job, ncalls, consumed>>
    /\ UNCHANGED feedbackVars

\* Variant: the picture of a buffered suggestion is taken to exist.
LocalImageUrlAssumed(state, id) == <<"images", id>>

\* lines 470-472
LocalImageUrl(state, id) ==
    Get(Get(state, "suggestion_images", NoneD), id, None)

\* lines 491-496: the file of the picture, from the last part of its url
SavedImagePath(local_image_url) ==
    IF local_image_url = None
    THEN None
    ELSE <<"user_images", local_image_url[Len(local_image_url)]>>

\* Database.create_meal with the arguments of lines 499-511 (the columns
\* kept are the ones the orchestrator or a later read depends on).
MealRow(meal_id, recipe, selected, suggestion_id, saved_image_path) ==
    [meal_id |-> meal_id,
     title |-> recipe.name,
     tags |-> selected.tags,
     suggestion_id |-> suggestion_id,
     generated_image_path |-> saved_image_path]

CreateMeal(meal_id, recipe, selected, suggestion_id, saved_image_path) ==
    Append(meals,
           MealRow(meal_id, recipe, selected, suggestion_id,
                   saved_image_path))

\* Variant: the session is marked done as soon as the meal is stored, and
\* again at the end of the call.
SelectCreateMealWriting(t) ==
    /\ Quiet
    /\ task[t].pc = "s_meal"
    /\ LET a == task[t]
           selected == FindSuggestion(a.state.suggestions, a.suggestion_id)
           meal_id == Len(meals) + 1
       IN \E recipe \in RecipeOutcomes(selected) :
            /\ meals' = CreateMeal(meal_id, recipe, selected, a.suggestion_id,
                      SavedImagePath(LocalImageUrl(a.state, a.suggestion_id)))
            /\ session_state' = UpsertSessionState(a.session_id,
                      [step |-> "done", meal_id |-> meal_id])
            /\ task' = [task EXCEPT ![t].pc = "s_write",
                                    ![t].meal_id = meal_id,
                                    ![t].recipe = recipe]
    /\ UNCHANGED <<job, ncalls, response, consumed>>
    /\ UNCHANGED feedbackVars

\* lines 474-511: recipe generation, then the meal is persisted
SelectCreateMeal(t) ==
    /\ Quiet
    /\ task[t].pc = "s_meal"
    /\ LET a == task[t]
           selected == FindSuggestion(a.state.suggestions, a.suggestion_id)
           meal_id == Len(meals) + 1
       IN \E recipe \in RecipeOutcomes(selected) :
            /\ meals' = CreateMeal(meal_id, recipe, selected, a.suggestion_id,
                      SavedImagePath(LocalImageUrl(a.state, a.suggestion_id)))
            /\ task' = [task EXCEPT ![t].pc = "s_write",
                                    ![t].meal_id = meal_id,
                                    ![t].recipe = recipe]
    /\ UNCHANGED <<session_state, job, ncalls, response, consumed>>
    /\ UNCHANGED feedbackVars

\* lines 513-517
DoneState(meal_id) == [step |-> "done", meal_id |-> meal_id]

\* lines 513-517: the INSERT of the done record; the call is then suspended
\* in the commit
SelectWrite(t) ==
    /\ Quiet
    /\ task[t].pc = "s_write"
    /\ LET a == task[t]
       IN /\ session_state' = UpsertSessionState(a.session_id,
                                                 DoneState(a.meal_id))
          /\ Pending(t, "s_commit",
                     RecipeResponse(a.meal_id, a.recipe,
                                    LocalImageUrl(a.state, a.suggestion_id)),
                     <<[ev |-> "recipe", out |-> a.recipe], [ev |-> "write"]>>)
    /\ UNCHANGED <<meals, job, ncalls, consumed>>
    /\ UNCHANGED feedbackVars

\* lines 519-524: the commit is through and the recipe is returned
SelectReturn(t) ==
    /\ Quiet
    /\ task[t].pc = "s_commit"
    /\ Return(t, task[t].result, task[t].trace)
    /\ consumed' =
          IF LiveOps("turn") \cup LiveOps("modify") = {}
          THEN [consumed EXCEPT ![task[t].session_id] = TRUE]
          ELSE consumed
    /\ UNCHANGED <<session_state, meals, job, ncalls>>
    /\ UNCHANGED feedbackVars

\* -------------------------------------------------- process_modification
StartModify(I, t) ==
    /\ FirstFree(I, t)
    /\ \E sid \in SessionIds, m \in I.modifications :
         /\ task' = [task EXCEPT ![t] =
                    [IdleTask EXCEPT !.op = "modify", !.pc = "m_read",
                                     !.session_id = sid, !.modification = m]]
         /\ consumed' = [consumed EXCEPT ![sid] = FALSE]
    /\ ncalls' = ncalls + 1
    /\ UNCHANGED <<session_state, meals, job, response>>
    /\ UNCHANGED feedbackVars

\* Variant: only a missing session is refused.
ModificationErrorLenient(state) ==
    IF state = NoneD
    THEN Raise("ValueError", "session_not_found")
    ELSE NoneD

\* lines 366-374
ModificationError(state) ==
    IF state = NoneD
    THEN Raise("ValueError", "session_not_found")
    ELSE IF Get(state, "normalized_input", NoneD) = NoneD
    THEN Raise("ValueError", "no_meal_context")
    ELSE NoneD

\* line 367: the SELECT of get_session_state is executed; the checks of
\* lines 368-374 run on its row when the fetch has resumed the call
ModifyRead(t) ==
    /\ Quiet
    /\ task[t].pc = "m_read"
    /\ LET a == task[t]
           state == GetSessionState(a.session_id)
           err == ModificationError(state)
       IN task' = [task EXCEPT ![t].pc = IF err # NoneD THEN "m_raise"
                                                         ELSE "m_run",
                               ![t].state = state,
                               ![t].result = err]
    /\ UNCHANGED <<session_state, meals, job, ncalls, response, consumed>>
    /\ UNCHANGED feedbackVars

\* lines 368-374: the state that was read is refused
ModifyRaise(t) ==
    /\ Quiet
    /\ task[t].pc = "m_raise"
    /\ Return(t, task[t].result, <<>>)
    /\ UNCHANGED <<session_state, meals, job, ncalls, consumed>>
    /\ UNCHANGED feedbackVars

\* line 380: [item.strip() for item in modification.split(',')]
SplitModification(m) ==
    IF m = "tofu, peas" THEN <<"tofu", "peas">> ELSE <<m>>

\* Variant: the history holds the latest modification only.
ModifiedStateReplacing(state, normalized, suggestions, modification) ==
    [step |-> "awaiting_selection",
     last_input_kind |-> normalized.input_kind,
     vision_result |-> Get(state, "vision_result", NoneD),
     normalized_input |-> normalized,
     suggestions |-> suggestions,
     suggestion_images |-> NoneD,
     image_paths |-> Get(state, "image_paths", <<>>),
     original_text |-> Get(state, "original_text", None),
     modifications |-> <<modification>>]

\* lines 402-412
ModifiedState(state, normalized, suggestions, modification) ==
    [step |-> "awaiting_selection",
     last_input_kind |-> normalized.input_kind,
     vision_result |-> Get(state, "vision_result", NoneD),
     normalized_input |-> normalized,
     suggestions |-> suggestions,
     suggestion_images |-> NoneD,
     image_paths |-> Get(state, "image_paths", <<>>),
     original_text |-> Get(state, "original_text", None),
     modifications |-> Get(state, "modifications", <<>>) \o <<modification>>]

\* lines 376-412: the suggestions are generated again and the record is
\* written; the call is then suspended in the commit
ModifyRun(I, t) ==
    /\ Quiet
    /\ task[t].pc = "m_run"
    /\ LET a == task[t]
           old == a.state.normalized_input
           normalized ==
               [old EXCEPT !.ingredients = @ \o SplitModification(a.modification)]
       IN \E sres \in SuggestOutcomes(I, normalized) :
            IF sres = SuggestRaised
            THEN /\ Return(t, Raise("ValidationError", "input_kind"),
                           <<[ev |-> "suggest", out |-> sres]>>)
                 /\ UNCHANGED session_state
            ELSE /\ session_state' = UpsertSessionState(a.session_id,
                      ModifiedState(a.state, normalized, sres.suggestions,
                                    a.modification))
                 /\ Pending(t, "m_commit",
                            SuggestionsResponse(sres.suggestions),
                            <<[ev |-> "suggest", out |-> sres], [ev |-> "write"]>>)
    /\ UNCHANGED <<meals, job, ncalls, consumed>>
    /\ UNCHANGED feedbackVars

\* lines 414-439: the commit is through, the image job is created and the
\* new suggestions are returned
ModifyReturn(t) ==
    /\ Quiet
    /\ task[t].pc = "m_commit"
    /\ LET a == task[t]
       IN /\ job' = SpawnImageJob(a.session_id, PendingSuggestions(a))
          /\ Return(t, a.result, a.trace)
    /\ UNCHANGED <<session_state, meals, ncalls, consumed>>
    /\ UNCHANGED feedbackVars

\* ------------------------------------------- _generate_and_save_images
\* download_and_save_image stores the picture as {suggestion_id}.jpg
LocalUrl(id) == <<"images", id>>

\* generate_and_download_suggestion_images: the ids whose picture was
\* generated and downloaded, each with its local url.
ImageOutcomes(I, suggestions) ==
    { [id \in S \cap Range(SuggestionIdsOf(suggestions)) |-> LocalUrl(id)] :
        S \in I.pictured }

\* line 117: state["suggestion_images"] = suggestion_images
WithImages(state, images) ==
    [k \in DOMAIN state \cup {"suggestion_images"} |->
        IF k = "suggestion_images" THEN images ELSE state[k]]

\* lines 111-117: the pictures are ready, the state is read and patched
JobRead(I, j) ==
    /\ Quiet
    /\ j.pc = "read"
    /\ LET state == GetSessionState(j.session_id)
       IN \E images \in ImageOutcomes(I, j.suggestions) :
            job' = IF state = NoneD
                   THEN job (-) OneJob(j)
                   ELSE (job (-) OneJob(j))
                        (+) OneJob([j EXCEPT !.pc = "write",
                                             !.state = WithImages(state, images)])
    /\ UNCHANGED <<session_state, meals, task, ncalls, response, consumed>>
    /\ UNCHANGED feedbackVars

\* line 118: the patched copy is written back
JobWrite(j) ==
    /\ Quiet
    /\ j.pc = "write"
    /\ session_state' = UpsertSessionState(j.session_id, j.state)
    /\ job' = job (-) OneJob(j)
    /\ UNCHANGED <<meals, task, ncalls, response, consumed>>
    /\ UNCHANGED feedbackVars

\* routers/chat.py: a ValueError (pydantic's ValidationError is one) becomes
\* VALIDATION_ERROR; anything else MODEL_ERROR for /select, INTERNAL_ERROR
\* for /turn and /modify.  routers/feedback.py: a ValueError becomes
\* NOT_FOUND, anything else INTERNAL_ERROR.
ValueErrors == {"ValueError", "ValidationError"}

\* The other routes answer INTERNAL_ERROR to every exception.
RouteOps == {"send", "clear", "profile", "tweak", "reflection"}

ErrorCode(op, exc) ==
    IF op = "feedback"
    THEN IF exc \in ValueErrors THEN "NOT_FOUND" ELSE "INTERNAL_ERROR"
    ELSE IF op \in RouteOps THEN "INTERNAL_ERROR"
    ELSE IF exc \in ValueErrors THEN "VALIDATION_ERROR"
    ELSE IF op = "select" THEN "MODEL_ERROR"
    ELSE "INTERNAL_ERROR"

ApiResponse(op, result) ==
    IF result.kind = "error"
    THEN [ok |-> FALSE, code |-> ErrorCode(op, result.exc),
          message |-> result.msg]
    ELSE [ok |-> TRUE, data |-> result]

\* routers/chat.py: the router wraps the result and answers the caller.
Respond ==
    /\ ~Quiet
    /\ response' = NoResponse
    /\ UNCHANGED <<session_state, meals, task, job, ncalls, consumed>>
    /\ UNCHANGED feedbackVars

SessionNext(I) ==
    \/ Respond
    \/ \E t \in Tasks : StartTurn(I, t)
    \/ \E t \in Tasks : TurnRead(t)
    \/ \E t \in Tasks : TurnRun(I, t)
    \/ \E t \in Tasks : TurnReturn(t)
    \/ \E t \in Tasks : StartSelect(I, t)
    \/ \E t \in Tasks : SelectRead(t)
    \/ \E t \in Tasks : SelectRaise(t)
    \/ \E t \in Tasks : SelectCreateMeal(t)
    \/ \E t \in Tasks : SelectWrite(t)
    \/ \E t \in Tasks : SelectReturn(t)
    \/ \E t \in Tasks : StartModify(I, t)
    \/ \E t \in Tasks : ModifyRead(t)
    \/ \E t \in Tasks : ModifyRaise(t)
    \/ \E t \in Tasks : ModifyRun(I, t)
    \/ \E t \in Tasks : ModifyReturn(t)
    \/ \E j \in LiveJobs : JobRead(I, j)
    \/ \E j \in LiveJobs : JobWrite(j)

\* Concurrent callers on one session.
Next == SessionNext(RaceInputs)
Spec == Init /\ [][Next]_vars

\* A single caller, every agent answer.
AgentNext == SessionNext(AgentInputs)
AgentSpec == Init /\ [][AgentNext]_vars

\* A single caller who modifies the request.
ModifyNext == SessionNext(ModifyInputs)
ModifySpec == Init /\ [][ModifyNext]_vars

\* A single caller whose batches differ, and the image jobs of two batches.
BatchNext == SessionNext(BatchInputs)
BatchSpec == Init /\ [][BatchNext]_vars

\* ======================================================= process_feedback
\* The requests: a disliked meal found easy and simple, a liked meal that
\* would be cooked again, and feedback on a meal that does not exist.
FeedbackArgs ==
    { [meal_id |-> 1, liked |-> FALSE, cooked_again |-> FALSE,
       tags |-> <<"easy", "simple">>, notes |-> "bland"],
      [meal_id |-> 1, liked |-> TRUE, cooked_again |-> TRUE, tags |-> <<>>,
       notes |-> None],
      [meal_id |-> 9, liked |-> TRUE, cooked_again |-> FALSE, tags |-> <<>>,
       notes |-> None] }

\* 0.3, 0.5 and 0.2 as doubles
Strength03 == Float(FALSE, -2, <<3, 3, 3, 3, 3, 3, 3, 3, 3, 3, 3, 3, 3>>)
Strength05 == Float(FALSE, -1, <<0, 0, 0, 0, 0, 0, 0, 0, 0, 0, 0, 0, 0>>)
Strength02 == Float(FALSE, -3, <<9, 9, 9, 9, 9, 9, 9, 9, 9, 9, 9, 9, 10>>)
FloatNeg(x) == IF x.int = 0 THEN x ELSE [x EXCEPT !.neg = ~x.neg]

\* tag.lower().replace(' ', '_') on the tags that occur
LowerUnderscore(tag) ==
    CASE tag = "Easy Recipes" -> "easy_recipes"
      [] tag = "Spicy" -> "spicy"
      [] OTHER -> tag

Lower(tag) ==
    CASE tag = "Easy" -> "easy"
      [] tag = "Too_Spicy" -> "too_spicy"
      [] OTHER -> tag

RECURSIVE FlatMap(_, _)
FlatMap(Op(_), s) ==
    IF s = <<>> THEN <<>> ELSE Op(Head(s)) \o FlatMap(Op, Tail(s))

\* MemoryUpdateAgent._fallback_learning; a fact key "likes:spicy" is the
\* pair <<"likes", "spicy">>.
FallbackLearning(meal_title, recipe_tags, liked, cooked_again, feedback_tags) ==
    LET strength == IF cooked_again THEN Strength05
                    ELSE IF liked THEN Strength03
                    ELSE FloatNeg(Strength03)
        outcome == IF liked THEN "liked" ELSE "disliked"
        TagFact(tag) ==
            <<[fact_key |-> <<IF liked THEN "likes" ELSE "avoid",
                              LowerUnderscore(tag)>>,
               delta_strength |-> strength]>>
        FeedbackTagFact(tag) ==
            IF Lower(tag) \in {"too_spicy", "too_hot"}
            THEN <<[fact_key |-> <<"avoid", "very_spicy">>,
                    delta_strength |-> Strength03]>>
            ELSE IF Lower(tag) \in {"easy", "simple"}
            THEN <<[fact_key |-> <<"likes", "easy_recipes">>,
                    delta_strength |-> Strength02]>>
            ELSE <<>>
    IN [memory_items |->
            <<[text |-> <<"User", outcome, meal_title>>,
               kind |-> IF liked THEN "like" ELSE "dislike",
               salience |-> FloatAbs(strength)]>>,
        preference_facts |->
            FlatMap(TagFact, SubSeq(recipe_tags, 1,
                        IF Len(recipe_tags) < 5 THEN Len(recipe_tags) ELSE 5))
                \o FlatMap(FeedbackTagFact, feedback_tags),
        profile_patch |-> [likes_add |-> <<>>, dislikes_add |-> <<>>]]

\* The validated answers of the learning LLM call.
LLMLearned ==
    { [memory_items |-> <<>>,
       preference_facts |-> <<>>,
       profile_patch |-> [likes_add |-> <<"avocado">>,
                          dislikes_add |-> <<"kale">>]] }

\* MemoryUpdateAgent.process_feedback: a validated LLM answer, or the
\* fallback when the call or the validation fails.
LearningOutcomes(a, meal) ==
    LLMLearned
        \cup {FallbackLearning(meal.title, meal.tags, a.liked,
                               a.cooked_again, a.tags)}

\* Variant: an unknown id resolves to the user's first meal.
GetMealLenient(meal_id) ==
    IF meals = <<>> THEN NoneD
    ELSE IF \E i \in DOMAIN meals : meals[i].meal_id = meal_id
    THEN meals[CHOOSE i \in DOMAIN meals : meals[i].meal_id = meal_id]
    ELSE meals[1]

\* Database.get_meal
GetMeal(meal_id) ==
    IF \E i \in DOMAIN meals : meals[i].meal_id = meal_id
    THEN meals[CHOOSE i \in DOMAIN meals : meals[i].meal_id = meal_id]
    ELSE NoneD

\* now_iso(): the time of the clock; every reading is later than the one
\* before it.
NowIso == clock

\* Variant: INSERT OR REPLACE, the row of a later call is a new row.
CreateOutcomeReplacing(meal_id, liked, cooked_again, tags, notes) ==
    [m \in DOMAIN outcomes \cup {meal_id} |->
        IF m = meal_id
        THEN [created_at |-> NowIso, liked |-> liked,
              cooked_again |-> cooked_again, tags |-> tags, notes |-> notes]
        ELSE outcomes[m]]

\* Database.create_outcome: INSERT ... ON CONFLICT(meal_id) DO UPDATE SET
\* liked, cooked_again, tags_json, notes; created_at is left as it was
CreateOutcome(meal_id, liked, cooked_again, tags, notes) ==
    [m \in DOMAIN outcomes \cup {meal_id} |->
        IF m = meal_id
        THEN [created_at |-> IF m \in DOMAIN outcomes
                             THEN outcomes[m].created_at ELSE NowIso,
              liked |-> liked, cooked_again |-> cooked_again,
              tags |-> tags, notes |-> notes]
        ELSE outcomes[m]]

\* Variant: ON CONFLICT DO UPDATE SET strength = excluded.strength
UpdatePreferenceFactOverwrite(facts, fact_key, delta) ==
    [k \in DOMAIN facts \cup {fact_key} |->
        IF k = fact_key THEN delta ELSE facts[k]]

\* Database.update_preference_fact: INSERT ... ON CONFLICT DO UPDATE SET
\* strength = preference_facts.strength + excluded.strength
UpdatePreferenceFact(facts, fact_key, delta) ==
    [k \in DOMAIN facts \cup {fact_key} |->
        IF k # fact_key THEN facts[k]
        ELSE IF fact_key \in DOMAIN facts THEN FloatAdd(facts[k], delta)
        ELSE delta]

\* list(set(...)): the members, once each, in an order that the hash seed
\* of the process decides
Orders(S) == {s \in [1..Cardinality(S) -> S] : Range(s) = S}

\* line 607
PatchApplies(prof, patch) ==
    /\ prof # NoneD
    /\ patch.likes_add # <<>> \/ patch.dislikes_add # <<>>

\* Variant: the two lists are taken from each other's field.
PatchedProfilesSwapped(prof, patch) ==
    { [prof EXCEPT !.likes = l, !.dislikes = d] :
        l \in Orders(Range(prof.dislikes \o patch.likes_add)),
        d \in Orders(Range(prof.likes \o patch.dislikes_add)) }

\* Variant: the additions replace the lists that were read.
PatchedProfilesReplaced(prof, patch) ==
    { [prof EXCEPT !.likes = l, !.dislikes = d] :
        l \in Orders(Range(patch.likes_add)),
        d \in Orders(Range(patch.dislikes_add)) }

\* lines 609-616: the profiles that the patch can make of the profile read
PatchedProfiles(prof, patch) ==
    { [prof EXCEPT !.likes = l, !.dislikes = d] :
        l \in Orders(Range(prof.likes \o patch.likes_add)),
        d \in Orders(Range(prof.dislikes \o patch.dislikes_add)) }

\* Database.upsert_profile / get_profile: the whole row is replaced
UpsertProfile(prof) == prof
GetProfile == profile

\* Orchestrator._generate_profile_summary
GenerateProfileSummary(prof) ==
    IF prof = NoneD THEN "New user - no profile yet" ELSE "summary"

FeedbackFree(t) == fb[t].pc = "idle"

StartFeedback(t) ==
    /\ Quiet
    /\ nfeedback < MaxFeedback
    /\ FeedbackFree(t)
    /\ \A u \in Tasks : FeedbackFree(u) => t <= u
    /\ \E a \in FeedbackArgs :
         fb' = [fb EXCEPT ![t] =
                  [IdleFeedback EXCEPT !.pc = "f_meal", !.meal_id = a.meal_id,
                                       !.liked = a.liked,
                                       !.cooked_again = a.cooked_again,
                                       !.tags = a.tags,
                                       !.notes = a.notes]]
    /\ nfeedback' = nfeedback + 1
    /\ UNCHANGED <<meals, response, profile, preference_facts, outcomes,
                   memory_items, vector_ids, conv, clock, nrequests, applied>>
    /\ UNCHANGED sessionVars

\* The call of task t returns or raises.
FeedbackReturns(t, result, trace) ==
    /\ fb' = [fb EXCEPT ![t] = IdleFeedback]
    /\ response' = [op |-> "feedback", task |-> t, session_id |-> None,
                    result |-> result, trace |-> trace]

\* The step that follows the learning step, the i-th memory item or the
\* i-th preference fact.
AfterLearning(f) ==
    IF f.memory_result.memory_items # <<>> THEN "f_memory"
    ELSE IF f.memory_result.preference_facts # <<>> THEN "f_fact"
    ELSE IF PatchApplies(f.profile, f.memory_result.profile_patch)
    THEN "f_patch"
    ELSE "f_reread"

AfterMemory(f) ==
    IF f.i < Len(f.memory_result.memory_items) THEN "f_memory"
    ELSE IF f.memory_result.preference_facts # <<>> THEN "f_fact"
    ELSE IF PatchApplies(f.profile, f.memory_result.profile_patch)
    THEN "f_patch"
    ELSE "f_reread"

AfterFact(f) ==
    IF f.i < Len(f.memory_result.preference_facts) THEN "f_fact"
    ELSE IF PatchApplies(f.profile, f.memory_result.profile_patch)
    THEN "f_patch"
    ELSE "f_reread"

\* line 540: the SELECT of get_meal is executed; the check of lines 541-542
\* runs on its row when the fetch has resumed the call
FeedbackMeal(t) ==
    /\ Quiet
    /\ fb[t].pc = "f_meal"
    /\ LET meal == GetMeal(fb[t].meal_id)
       IN fb' = [fb EXCEPT ![t].pc = IF meal = NoneD THEN "f_raise"
                                                     ELSE "f_outcome",
                           ![t].meal = meal]
    /\ UNCHANGED <<meals, response, profile, preference_facts, outcomes,
                   memory_items, vector_ids, conv, clock, nfeedback, nrequests,
                   applied>>
    /\ UNCHANGED sessionVars

\* lines 541-542: no meal was read
FeedbackRaise(t) ==
    /\ Quiet
    /\ fb[t].pc = "f_raise"
    /\ FeedbackReturns(t, Raise("ValueError", "meal_not_found"), <<>>)
    /\ UNCHANGED <<meals, profile, preference_facts, outcomes, memory_items,
                   vector_ids, conv, clock, nfeedback, nrequests, applied>>
    /\ UNCHANGED sessionVars

\* lines 545-552: the outcome of the meal that was read is saved
FeedbackOutcome(t) ==
    /\ Quiet
    /\ fb[t].pc = "f_outcome"
    /\ LET f == fb[t]
       IN outcomes' = CreateOutcome(f.meal_id, f.liked, f.cooked_again,
                                    f.tags, f.notes)
    /\ clock' = clock + 1
    /\ fb' = [fb EXCEPT ![t].pc = "f_learn"]
    /\ UNCHANGED <<meals, response, profile, preference_facts, memory_items,
                   vector_ids, conv, nfeedback, nrequests, applied>>
    /\ UNCHANGED sessionVars

\* lines 554-573: the profile is read, then the learning step runs
FeedbackLearn(t) ==
    /\ Quiet
    /\ fb[t].pc = "f_learn"
    /\ \E mr \in LearningOutcomes(fb[t], fb[t].meal) :
         LET f == [fb[t] EXCEPT !.profile = GetProfile,
                                !.memory_result = mr, !.i = 0]
         IN fb' = [fb EXCEPT ![t] = [f EXCEPT !.pc = AfterLearning(f)]]
    /\ UNCHANGED <<meals, response, profile, preference_facts, outcomes,
                   memory_items, vector_ids, conv, clock, nfeedback, nrequests,
                   applied>>
    /\ UNCHANGED sessionVars

\* lines 578-587: the record of one memory item is inserted
FeedbackMemory(t) ==
    /\ Quiet
    /\ fb[t].pc = "f_memory"
    /\ LET f == [fb[t] EXCEPT !.i = @ + 1]
           item == f.memory_result.memory_items[f.i]
           memory_id == Len(memory_items) + 1
       IN /\ memory_items' =
                Append(memory_items,
                       [memory_id |-> memory_id, kind |-> item.kind,
                        text |-> item.text, salience |-> item.salience,
                        source_meal_id |-> f.meal_id])
          /\ fb' = [fb EXCEPT ![t] = [f EXCEPT !.pc = "f_vector",
                                               !.memory_id = memory_id]]
    /\ UNCHANGED <<meals, response, profile, preference_facts, outcomes,
                   vector_ids, conv, clock, nfeedback, nrequests, applied>>
    /\ UNCHANGED sessionVars

\* The call goes on after the item of a record.
NextItem(f) ==
    [f EXCEPT !.pc = AfterMemory(f),
              !.i = IF AfterMemory(f) = "f_memory" THEN f.i ELSE 0,
              !.memory_id = 0]

\* Variant: a failure of the vector store ends the call with an error.
FeedbackVectorFailing(t) ==
    /\ Quiet
    /\ fb[t].pc = "f_vector"
    /\ \E stored \in BOOLEAN :
          IF stored
          THEN /\ vector_ids' = vector_ids \cup {fb[t].memory_id}
               /\ fb' = [fb EXCEPT ![t] = NextItem(fb[t])]
               /\ UNCHANGED response
          ELSE /\ vector_ids' = vector_ids
               /\ FeedbackReturns(t, Raise("RuntimeError", "embedding"), <<>>)
    /\ UNCHANGED <<meals, profile, preference_facts, outcomes, memory_items,
                   conv, clock, nfeedback, nrequests, applied>>
    /\ UNCHANGED sessionVars

\* lines 588-595: the embedding call has answered and the vector store
\* holds the id, or add_memory failed and the call goes on without it
FeedbackVector(t) ==
    /\ Quiet
    /\ fb[t].pc = "f_vector"
    /\ \E stored \in BOOLEAN :
          vector_ids' = IF stored THEN vector_ids \cup {fb[t].memory_id}
                        ELSE vector_ids
    /\ fb' = [fb EXCEPT ![t] = NextItem(fb[t])]
    /\ UNCHANGED <<meals, response, profile, preference_facts, outcomes,
                   memory_items, conv, clock, nfeedback, nrequests, applied>>
    /\ UNCHANGED sessionVars

\* History: the delta is noted under the key it was applied to.
Note(fact_key, delta) ==
    [k \in DOMAIN applied \cup {fact_key} |->
        IF k = fact_key THEN Get(applied, k, <<>>) \o <<delta>>
        ELSE applied[k]]

\* lines 597-604: one preference delta is applied
FeedbackFact(t) ==
    /\ Quiet
    /\ fb[t].pc = "f_fact"
    /\ LET f == [fb[t] EXCEPT !.i = @ + 1]
           fact == f.memory_result.preference_facts[f.i]
       IN /\ preference_facts' =
                UpdatePreferenceFact(preference_facts, fact.fact_key,
                                     fact.delta_strength)
          /\ applied' = Note(fact.fact_key, fact.delta_strength)
          /\ fb' = [fb EXCEPT ![t] = [f EXCEPT !.pc = AfterFact(f)]]
    /\ UNCHANGED <<meals, response, profile, outcomes, memory_items,
                   vector_ids, conv, clock, nfeedback, nrequests>>
    /\ UNCHANGED sessionVars

\* lines 606-618: the patch is applied to the profile read at line 560
FeedbackPatch(t) ==
    /\ Quiet
    /\ fb[t].pc = "f_patch"
    /\ \E prof \in PatchedProfiles(fb[t].profile,
                                   fb[t].memory_result.profile_patch) :
         profile' = UpsertProfile(prof)
    /\ fb' = [fb EXCEPT ![t].pc = "f_reread"]
    /\ UNCHANGED <<meals, response, preference_facts, outcomes, memory_items,
                   vector_ids, conv, clock, nfeedback, nrequests, applied>>
    /\ UNCHANGED sessionVars

\* line 621: the profile is read again
FeedbackReread(t) ==
    /\ Quiet
    /\ fb[t].pc = "f_reread"
    /\ fb' = [fb EXCEPT ![t].pc = "f_return",
                        ![t].updated_profile = GetProfile]
    /\ UNCHANGED <<meals, response, profile, preference_facts, outcomes,
                   memory_items, vector_ids, conv, clock, nfeedback, nrequests,
                   applied>>
    /\ UNCHANGED sessionVars

\* lines 622-628
FeedbackResult(f, updated_profile) ==
    [kind |-> "feedback",
     updated_profile_summary |-> GenerateProfileSummary(updated_profile),
     memory_items_written |-> Len(f.memory_result.memory_items),
     preference_facts_updated |-> Len(f.memory_result.preference_facts)]

\* lines 622-628: the summary of the profile that was read and the counts
\* are returned
FeedbackReturn(t) ==
    /\ Quiet
    /\ fb[t].pc = "f_return"
    /\ LET f == fb[t]
       IN FeedbackReturns(t, FeedbackResult(f, f.updated_profile),
              <<[ev |-> "learn", out |-> f.memory_result,
                 profile |-> f.profile]>>)
    /\ UNCHANGED <<meals, profile, preference_facts, outcomes, memory_items,
                   vector_ids, conv, clock, nfeedback, nrequests, applied>>
    /\ UNCHANGED sessionVars

\* ------------------------------------------- the other routes of the user
\* A request to a route beside /chat and /feedback that writes one of the
\* user's tables: /conversation/send, /conversation/clear, /user/profile,
\* /home/tweak-selection and /journal/reflection.
StartRequest ==
    /\ Quiet
    /\ nrequests < MaxRequests
    /\ conv.pc = "idle"
    /\ nrequests' = nrequests + 1
    /\ UNCHANGED <<meals, response, profile, preference_facts, outcomes,
                   memory_items, vector_ids, fb, clock, nfeedback, applied>>
    /\ UNCHANGED sessionVars

\* The request in flight goes on, touching no table.
RequestGoesOn ==
    UNCHANGED <<session_state, meals, task, job, ncalls, response, consumed,
                profile, preference_facts, outcomes, memory_items,
                vector_ids, fb, clock, nfeedback, nrequests, applied>>

\* The route answers its caller.
RequestReturns(result) ==
    /\ Quiet
    /\ conv' = IdleRequest
    /\ response' = [op |-> conv.op, task |-> 0, session_id |-> None,
                    result |-> result, trace |-> <<>>]
    /\ UNCHANGED <<session_state, meals, task, job, ncalls, consumed,
                   profile, preference_facts, outcomes, memory_items,
                   vector_ids, fb, clock, nfeedback, nrequests, applied>>

\* -------------------------------------- routers/conversation.send_message
\* What the chat agent's answer carries for the profile: nothing (an answer
\* without a json block) or the addition of a like.
ProfileUpdates == { NoneD, [likes_add |-> <<"kale">>] }

\* openai_client.chat answers with one of the updates, or raises.
ChatRaised == [raised |-> "Exception"]
ChatAnswers == {ChatRaised} \cup {[profile_update |-> u] : u \in ProfileUpdates}

UserMessage == [role |-> "user", content |-> "hi"]
AssistantMessage == [role |-> "assistant", content |-> "Noted!"]

RECURSIVE AppendNew(_, _)
\* lines 277-280: the items not yet in the list are appended
AppendNew(current_list, new_items) ==
    IF new_items = <<>> THEN current_list
    ELSE AppendNew(IF Head(new_items) \in Range(current_list)
                   THEN current_list
                   ELSE Append(current_list, Head(new_items)),
                   Tail(new_items))

\* _apply_profile_update, for an update of likes_add / dislikes_add
ApplyProfileUpdate(current_profile, update) ==
    LET prof == IF current_profile = NoneD
                THEN [likes |-> <<>>, dislikes |-> <<>>]
                ELSE current_profile
    IN [prof EXCEPT
          !.likes = AppendNew(@, Get(update, "likes_add", <<>>)),
          !.dislikes = AppendNew(@, Get(update, "dislikes_add", <<>>))]

\* lines 257-261, 280-283: an item was appended to one of the lists
ProfileChanged(current_profile, update) ==
    /\ update # NoneD
    /\ ApplyProfileUpdate(current_profile, update)
          # ApplyProfileUpdate(current_profile, NoneD)

StartMessage ==
    /\ StartRequest
    /\ conv' = [IdleRequest EXCEPT !.op = "send", !.pc = "c_history"]

\* lines 113-114: the chat history is read
MessageHistory ==
    /\ Quiet
    /\ conv.pc = "c_history"
    /\ conv' = [conv EXCEPT
                  !.pc = "c_profile",
                  !.messages = Get(GetSessionState(ChatRow), "messages", <<>>)]
    /\ RequestGoesOn

\* lines 117-129: the profile is read for the prompt
MessageRead ==
    /\ Quiet
    /\ conv.pc = "c_profile"
    /\ conv' = [conv EXCEPT !.pc = "c_agent", !.profile = GetProfile,
                            !.messages = Append(@, UserMessage)]
    /\ RequestGoesOn

\* lines 139-159: the agent answers; its profile update, if it has one, is
\* applied to the profile read before the call, and what changes is written
MessageApply ==
    /\ Quiet
    /\ conv.pc = "c_agent"
    /\ \E answer \in ChatAnswers :
         IF answer = ChatRaised
         THEN /\ conv' = IdleRequest
              /\ response' = [op |-> "send", task |-> 0, session_id |-> None,
                              result |-> Raise("Exception", "chat"),
                              trace |-> <<>>]
              /\ UNCHANGED profile
         ELSE LET update == answer.profile_update
                  changed == ProfileChanged(conv.profile, update)
              IN /\ profile' =
                       IF changed
                       THEN UpsertProfile(ApplyProfileUpdate(conv.profile,
                                                             update))
                       ELSE profile
                 /\ conv' = [conv EXCEPT
                               !.pc = "c_save",
                               !.profile_changed = changed,
                               !.messages = Append(@, AssistantMessage)]
                 /\ UNCHANGED response
    /\ UNCHANGED <<meals, preference_facts, outcomes, memory_items,
                   vector_ids, fb, clock, nfeedback, nrequests, applied>>
    /\ UNCHANGED sessionVars

\* lines 161-164: the history with the two new messages is saved
MessageSave ==
    /\ Quiet
    /\ conv.pc = "c_save"
    /\ session_state' = UpsertSessionState(ChatRow,
                                           [messages |-> conv.messages])
    /\ conv' = [conv EXCEPT !.pc = IF conv.profile_changed THEN "c_reread"
                                                           ELSE "c_return"]
    /\ UNCHANGED <<meals, task, job, ncalls, response, consumed,
                   profile, preference_facts, outcomes, memory_items,
                   vector_ids, fb, clock, nfeedback, nrequests, applied>>

\* lines 167-169: the profile that was changed is read again
MessageReread ==
    /\ Quiet
    /\ conv.pc = "c_reread"
    /\ conv' = [conv EXCEPT !.pc = "c_return", !.updated_profile = GetProfile]
    /\ RequestGoesOn

\* lines 171-181
MessageResult(c) ==
    [kind |-> "message", message |-> AssistantMessage,
     profile_changed |-> c.profile_changed,
     updated_profile |-> c.updated_profile]

MessageReturn ==
    /\ conv.pc = "c_return"
    /\ RequestReturns(MessageResult(conv))

\* ------------------------------- routers/conversation.clear_chat_history
StartClear ==
    /\ StartRequest
    /\ conv' = [IdleRequest EXCEPT !.op = "clear", !.pc = "x_delete"]

\* Database.delete_session_state
DeleteSessionState(sid) == [session_state EXCEPT ![sid] = NoneD]

\* line 194: the row of the chat history is deleted
ClearDelete ==
    /\ Quiet
    /\ conv.pc = "x_delete"
    /\ session_state' = DeleteSessionState(ChatRow)
    /\ conv' = [conv EXCEPT !.pc = "x_return"]
    /\ UNCHANGED <<meals, task, job, ncalls, response, consumed,
                   profile, preference_facts, outcomes, memory_items,
                   vector_ids, fb, clock, nfeedback, nrequests, applied>>

\* line 196
ClearReturn ==
    /\ conv.pc = "x_return"
    /\ RequestReturns([kind |-> "cleared", cleared |-> TRUE])

\* --------------------------------- routers/user.create_or_update_profile
\* The profile of the request, model_dump(exclude_none=True).
ProfileInputs == { [likes |-> <<"rice">>, dislikes |-> <<>>] }

StartProfile ==
    /\ StartRequest
    /\ \E p \in ProfileInputs :
         conv' = [IdleRequest EXCEPT !.op = "profile", !.pc = "p_write",
                                     !.profile = p]

\* line 35: the row of the profile is replaced by the request's
ProfileWrite ==
    /\ Quiet
    /\ conv.pc = "p_write"
    /\ profile' = UpsertProfile(conv.profile)
    /\ conv' = [conv EXCEPT !.pc = "p_read"]
    /\ UNCHANGED <<meals, response, preference_facts, outcomes, memory_items,
                   vector_ids, fb, clock, nfeedback, nrequests, applied>>
    /\ UNCHANGED sessionVars

\* line 38: the profile is read back
ProfileRead ==
    /\ Quiet
    /\ conv.pc = "p_read"
    /\ conv' = [conv EXCEPT !.pc = "p_return", !.updated_profile = GetProfile]
    /\ RequestGoesOn

\* routers/user._generate_profile_summary, for a profile of likes and
\* dislikes
UserProfileSummary(prof) ==
    IF prof = NoneD THEN "New user - complete onboarding to personalize"
    ELSE "Basic profile saved"

\* lines 39-46
ProfileReturn ==
    /\ conv.pc = "p_return"
    /\ RequestReturns([kind |-> "profile", profile_version |-> 1,
                       profile_summary |->
                           UserProfileSummary(conv.updated_profile)])

\* ------------------------------------- routers/home.save_tweak_selection
\* The tweaks a caller selects.
TweakSelections == { <<>>, <<"Easy Recipes">> }

StartTweakSelection ==
    /\ StartRequest
    /\ \E tweaks \in TweakSelections :
         conv' = [IdleRequest EXCEPT
                    !.op = "tweak",
                    !.pc = IF tweaks = <<>> THEN "w_return" ELSE "w_fact",
                    !.selected_tweaks = tweaks]

\* lines 533-541: the preference of one selected tweak is raised by 0.3
TweakSelectionFact ==
    /\ Quiet
    /\ conv.pc = "w_fact"
    /\ LET c == [conv EXCEPT !.i = @ + 1]
           fact_key == <<"prefers", LowerUnderscore(c.selected_tweaks[c.i])>>
       IN /\ preference_facts' =
                UpdatePreferenceFact(preference_facts, fact_key, Strength03)
          /\ applied' = Note(fact_key, Strength03)
          /\ conv' = [c EXCEPT !.pc = IF c.i < Len(c.selected_tweaks)
                                      THEN "w_fact" ELSE "w_return"]
    /\ UNCHANGED <<meals, response, profile, outcomes, memory_items,
                   vector_ids, fb, clock, nfeedback, nrequests>>
    /\ UNCHANGED sessionVars

\* lines 543-546
TweakSelectionReturn ==
    /\ conv.pc = "w_return"
    /\ RequestReturns([kind |-> "tweaks",
                       saved |-> Len(conv.selected_tweaks)])

\* ---------------------------------------- routers/journal.add_reflection
\* line 166: items[-50:]
Last(items, n) ==
    SubSeq(items, IF Len(items) > n THEN Len(items) - n + 1 ELSE 1,
           Len(items))

Reflection == [text |-> "felt good"]

StartReflection ==
    /\ StartRequest
    /\ conv' = [IdleRequest EXCEPT !.op = "reflection", !.pc = "r_read"]

\* lines 155-156: the reflections stored so far are read
ReflectionRead ==
    /\ Quiet
    /\ conv.pc = "r_read"
    /\ conv' = [conv EXCEPT
                  !.pc = "r_write",
                  !.items = Get(GetSessionState(ReflectionsRow), "items", <<>>)]
    /\ RequestGoesOn

\* lines 158-170: the list with the new reflection, its last 50, is written
ReflectionWrite ==
    /\ Quiet
    /\ conv.pc = "r_write"
    /\ session_state' =
          UpsertSessionState(ReflectionsRow,
              [items |-> Last(Append(conv.items, Reflection), KeptReflections)])
    /\ conv' = [conv EXCEPT !.pc = "r_return"]
    /\ UNCHANGED <<meals, task, job, ncalls, response, consumed,
                   profile, preference_facts, outcomes, memory_items,
                   vector_ids, fb, clock, nfeedback, nrequests, applied>>

\* lines 75-78
ReflectionReturn ==
    /\ conv.pc = "r_return"
    /\ RequestReturns([kind |-> "reflection", saved |-> TRUE])

\* A user who selected one meal and may have a profile from onboarding.
FeedbackInit ==
    /\ meals = <<MealRow(1, [name |-> "curry"],
                         [tags |-> <<"Easy Recipes">>], "sug_1", None)>>
    /\ session_state = [NoSessions EXCEPT !["s1"] = DoneState(1)]
    /\ NoSessionCall
    /\ profile \in {NoneD, [likes |-> <<>>, dislikes |-> <<>>]}
    /\ NothingLearned

FeedbackNext ==
    \/ Respond
    \/ \E t \in Tasks : StartFeedback(t)
    \/ \E t \in Tasks : FeedbackMeal(t)
    \/ \E t \in Tasks : FeedbackRaise(t)
    \/ \E t \in Tasks : FeedbackOutcome(t)
    \/ \E t \in Tasks : FeedbackLearn(t)
    \/ \E t \in Tasks : FeedbackMemory(t)
    \/ \E t \in Tasks : FeedbackVector(t)
    \/ \E t \in Tasks : FeedbackFact(t)
    \/ \E t \in Tasks : FeedbackPatch(t)
    \/ \E t \in Tasks : FeedbackReread(t)
    \/ \E t \in Tasks : FeedbackReturn(t)
    \/ StartMessage
    \/ MessageHistory
    \/ MessageRead
    \/ MessageApply
    \/ MessageSave
    \/ MessageReread
    \/ MessageReturn
    \/ StartClear
    \/ ClearDelete
    \/ ClearReturn
    \/ StartProfile
    \/ ProfileWrite
    \/ ProfileRead
    \/ ProfileReturn
    \/ StartTweakSelection
    \/ TweakSelectionFact
    \/ TweakSelectionReturn
    \/ StartReflection
    \/ ReflectionRead
    \/ ReflectionWrite
    \/ ReflectionReturn

\* Concurrent feedback calls and requests to the other routes of one user.
FeedbackSpec == FeedbackInit /\ [][FeedbackNext]_vars

\* =============================================================== claims
\* Vocabulary of the properties: which coroutine takes the step, and what
\* the session table holds.
StoredStep(sid) == Get(session_state[sid], "step", None)
BufferedIds(state) == Range(SuggestionIdsOf(Get(state, "suggestions", <<>>)))
Steps(t, pc) == task[t].pc = pc /\ task'[t] # task[t]
Failed(r) == r.result # NoneD /\ r.result.kind = "error"

\* What the step that task t takes settles about the answer of its call:
\* the response itself when the call returns with this step, else the
\* result and the trace the coroutine holds while it is suspended.
Outcome(t) ==
    [op |-> task[t].op, task |-> t, session_id |-> task[t].session_id,
     result |-> IF task'[t].pc = "idle" THEN response'.result
                ELSE task'[t].result,
     trace |-> IF task'[t].pc = "idle" THEN response'.trace
               ELSE task'[t].trace]

\* The call that hands back `r` wrote the session record.
Wrote(r) == r.trace # <<>> /\ r.trace[Len(r.trace)].ev = "write"

\* The output of the agent step `ev` in the trace of a call.
OutputOf(tr, ev) == tr[CHOOSE i \in DOMAIN tr : tr[i].ev = ev].out

\* The step of task t that returns or raises after an await delivers what
\* the coroutine held and touches no table.
Delivers(t) ==
    /\ response'.result = task[t].result
    /\ response'.trace = task[t].trace
    /\ response'.session_id = task[t].session_id
    /\ session_state' = session_state
    /\ meals' = meals
Reply(r) == ApiResponse(r.op, r.result)
MealsOf(id) == {i \in DOMAIN meals : meals[i].suggestion_id = id}

\* ------------------------------------------------------------------- C1
\* The selection of task t reads an awaiting_selection record that buffers
\* no suggestion with the requested id.
UnknownIdSelected(t) ==
    /\ Steps(t, "s_read")
    /\ StoredStep(task[t].session_id) = "awaiting_selection"
    /\ task[t].suggestion_id
           \notin BufferedIds(session_state[task[t].session_id])

\* C1 (as amended): on a session whose stored step is awaiting_selection, a
\* selection of an id that no buffered suggestion carries fails with a
\* ValueError saying the suggestion was not found, which /select answers
\* with the code VALIDATION_ERROR: the read settles that error, the raise
\* that follows delivers it, and neither step creates a Meal or changes the
\* stored record (so its step).
C1_UnknownIdRejected ==
    [][\A t \in Tasks :
         /\ UnknownIdSelected(t) =>
               /\ task'[t].pc = "s_raise"
               /\ Outcome(t).result
                      = Raise("ValueError", "suggestion_not_found")
               /\ Reply(Outcome(t)).code = "VALIDATION_ERROR"
               /\ meals' = meals
               /\ session_state' = session_state
         /\ Steps(t, "s_raise") => Delivers(t)]_vars

\* C1 (as stated): the failure is of the not-found class, i.e. the caller
\* is answered with the code NOT_FOUND.
C1_NotFoundClass ==
    [][\A t \in Tasks :
         UnknownIdSelected(t) =>
            /\ Failed(Outcome(t))
            /\ Reply(Outcome(t)).code = "NOT_FOUND"
            /\ meals' = meals
            /\ session_state' = session_state]_vars

\* A selection of an id outside the buffered list has just been rejected
\* while the session awaits a selection.
C1_Witness ==
    /\ response.op = "select"
    /\ response.result = Raise("ValueError", "suggestion_not_found")
    /\ StoredStep(response.session_id) = "awaiting_selection"
    /\ meals = <<>>

\* ------------------------------------------------------------------- C2
\* C2: once a selection has succeeded on a session and the caller has issued
\* no chat turn or modification since, a further selection fails with the
\* no-pending-selection error; and a selection fails whenever it finds no
\* stored state or a stored step awaiting_followup or done.
C2_SecondSelectionFails ==
    [][\A t \in Tasks :
         Steps(t, "s_read") =>
            LET sid == task[t].session_id
            IN /\ consumed[sid] =>
                    Outcome(t).result
                        = Raise("ValueError", "no_pending_selection")
               /\ session_state[sid] = NoneD =>
                    Outcome(t).result
                        = Raise("ValueError", "session_not_found")
               /\ StoredStep(sid) \in {"awaiting_followup", "done"} =>
                    Outcome(t).result
                        = Raise("ValueError", "no_pending_selection")]_vars

\* The part of C2 that the code keeps: a selection that reads no state, or a
\* step awaiting_followup or done, fails.
C2_Witness ==
    /\ response.op = "select"
    /\ response.result = Raise("ValueError", "no_pending_selection")
    /\ StoredStep(response.session_id) = "done"
    /\ consumed[response.session_id]

\* ------------------------------------------------------------------- C3
\* C3: a successful selection appends exactly one Meal, with the selected id
\* and the tags of the buffered suggestion of that id, and then writes step
\* done with that meal's id; and the stored step becomes done by no step
\* other than a selection's write.
C3_SelectionCreatesOneMeal ==
    [][/\ \A t \in Tasks :
            Steps(t, "s_meal") =>
               LET a == task[t]
                   m == meals'[Len(meals')]
               IN /\ Len(meals') = Len(meals) + 1
                  /\ SubSeq(meals', 1, Len(meals)) = meals
                  /\ m.suggestion_id = a.suggestion_id
                  /\ \E i \in DOMAIN a.state.suggestions :
                        /\ a.state.suggestions[i].suggestion_id
                               = a.suggestion_id
                        /\ a.state.suggestions[i].tags = m.tags
                  /\ task'[t].meal_id = m.meal_id
       /\ \A t \in Tasks :
            Steps(t, "s_write") =>
               /\ meals' = meals
               /\ session_state'[task[t].session_id]
                      = [step |-> "done", meal_id |-> task[t].meal_id]
               /\ Outcome(t).result.kind = "recipe"
               /\ Outcome(t).result.meal_id = task[t].meal_id
       /\ \A sid \in SessionIds :
            (StoredStep(sid) # "done" /\ StoredStep(sid)' = "done") =>
               \E t \in Tasks : Steps(t, "s_write")]_vars

\* A selection has just succeeded: one Meal, and the record is done with it.
C3_Witness ==
    /\ response.op = "select"
    /\ response.result.kind = "recipe"
    /\ Len(meals) = 1
    /\ session_state[response.session_id]
           = [step |-> "done", meal_id |-> meals[1].meal_id]
    /\ meals[1].suggestion_id = "sug_2"
    /\ meals[1].tags = <<"spicy">>

\* ------------------------------------------------------------------- C4
\* C4: each entry of a session into awaiting_selection yields at most one
\* Meal: once a selection has succeeded, and until the caller issues another
\* chat turn or modification, no selection creates a Meal - also when two
\* selections interleave, both reading the state before either writes done.
C4_AtMostOnePendingSelection ==
    [][\A t \in Tasks :
         Steps(t, "s_meal") => ~consumed[task[t].session_id]]_vars

\* Two selections of one session are both past the checks, on the same
\* stored record.
C4_Witness ==
    \E t, u \in Tasks :
        /\ t # u
        /\ task[t].pc = "s_meal"
        /\ task[u].pc = "s_meal"
        /\ task[t].session_id = task[u].session_id
        /\ task[t].state = task[u].state
        /\ job = NoJobs

\* ------------------------------------------------------------------- C5
\* The turn of task t, which read a record with step awaiting_followup and
\* carries a non-empty text, completes.
FollowUpAnswered(t) ==
    /\ Steps(t, "t_run")
    /\ Get(task[t].state, "step", None) = "awaiting_followup"
    /\ task[t].text # NoText

\* C5 (as stated): when a chat turn with a non-empty answer, on a session
\* that awaited a follow-up when the turn read it, returns, the stored step
\* is awaiting_followup or awaiting_selection.
C5_StepOpenAtReturn ==
    [][\A t \in Tasks :
         (/\ Steps(t, "t_commit")
          /\ Get(task[t].state, "step", None) = "awaiting_followup"
          /\ task[t].text # NoText) =>
            StoredStep(task[t].session_id)'
                \in {"awaiting_followup", "awaiting_selection"}]_vars

\* C5 (as amended): a chat turn with a non-empty answer on a session that
\* awaits a follow-up creates no Meal and either writes nothing or writes a
\* record whose step is awaiting_followup or awaiting_selection, never done;
\* the return that follows the write changes no table.  (What the session
\* holds at the return is the last write, which may be another call's or an
\* image job's.)
C5_FollowUpNeverDone ==
    [][\A t \in Tasks :
         /\ FollowUpAnswered(t) =>
            LET sid == task[t].session_id
                open == {"awaiting_followup", "awaiting_selection"}
            IN /\ meals' = meals
               /\ \/ session_state' = session_state
                  \/ StoredStep(sid)' \in open
               /\ StoredStep(sid) = "awaiting_followup" =>
                     StoredStep(sid)' \in open
               /\ task'[t].pc = "t_commit" => StoredStep(sid)' \in open
               /\ task'[t].pc = "idle" => session_state' = session_state
         /\ Steps(t, "t_commit") => Delivers(t)]_vars

\* An answer to a follow-up has just led to buffered suggestions.
C5_Witness ==
    /\ response.op = "turn"
    /\ response.result.kind = "suggestions"
    /\ \E i \in DOMAIN response.trace :
          /\ response.trace[i].ev = "normalize"
          /\ response.trace[i].previous_answers = "i have rice"
    /\ StoredStep(response.session_id) = "awaiting_selection"
    /\ meals = <<>>

\* ------------------------------------------------------------------- C6
\* The normalization step of the call whose answer is r returned input_kind
\* unknown with a non-empty list of questions.
AskedBack(r) ==
    \E i \in DOMAIN r.trace :
        /\ r.trace[i].ev = "normalize"
        /\ r.trace[i].out.input_kind = "unknown"
        /\ r.trace[i].out.missing_info_questions # <<>>

\* C6 (as amended): when the normalization step of a chat turn returns
\* input_kind unknown with a non-empty list of questions, the turn makes no
\* call of the suggestion step, writes a record of step awaiting_followup
\* and then returns a blocking FollowUp with exactly those questions; the
\* return changes no table.
C6_UnknownInputWritesFollowUp ==
    [][\A t \in Tasks :
         /\ (Steps(t, "t_run") /\ AskedBack(Outcome(t))) =>
               LET r == Outcome(t)
                   e == OutputOf(r.trace, "normalize")
               IN /\ task'[t].pc = "t_commit"
                  /\ r.result = [kind |-> "follow_up",
                                 questions |-> e.missing_info_questions,
                                 blocking |-> TRUE]
                  /\ StoredStep(task[t].session_id)' = "awaiting_followup"
                  /\ \A k \in DOMAIN r.trace : r.trace[k].ev # "suggest"
         /\ Steps(t, "t_commit") => Delivers(t)]_vars

\* C6 (as stated): when the normalization step of a chat turn returns
\* input_kind unknown with a non-empty list of questions, the turn returns a
\* blocking FollowUp with exactly those questions, the stored step is
\* awaiting_followup at the return, and the turn has made no call of the
\* suggestion step.
C6_UnknownInputAsksBack ==
    \A i \in DOMAIN response.trace :
        LET e == response.trace[i]
        IN (/\ response.op = "turn"
            /\ e.ev = "normalize"
            /\ e.out.input_kind = "unknown"
            /\ e.out.missing_info_questions # <<>>) =>
              /\ response.result
                     = [kind |-> "follow_up",
                        questions |-> e.out.missing_info_questions,
                        blocking |-> TRUE]
              /\ StoredStep(response.session_id) = "awaiting_followup"
              /\ \A k \in DOMAIN response.trace :
                     response.trace[k].ev # "suggest"

\* A turn whose normalization asked "which meal" has just returned.
C6_Witness ==
    /\ response.op = "turn"
    /\ response.trace
           = <<[ev |-> "normalize", out |-> NormalizedAsk,
                vision_result |-> NoneD, previous_answers |-> None],
               [ev |-> "write"]>>
    /\ response.result.kind = "follow_up"
    /\ response.result.questions = <<"which meal">>
    /\ StoredStep(response.session_id) = "awaiting_followup"

\* ------------------------------------------------------------------- C7
\* The suggestion step of the turn that completes gave no suggestion and
\* some follow-up questions.
NoSuggestionButQuestions(r) ==
    \E i \in DOMAIN r.trace :
        /\ r.trace[i].ev = "suggest"
        /\ "suggestions" \in DOMAIN r.trace[i].out
        /\ r.trace[i].out.suggestions = <<>>
        /\ r.trace[i].out.follow_up_questions # <<>>

\* C7: when the suggestion step of a chat turn yields no suggestion together
\* with follow-up questions, the turn returns a blocking FollowUp with these
\* questions, writes no session record (the stored record is what it was)
\* and starts no image job.
C7_NoSuggestionNoTransition ==
    [][\A t \in Tasks :
         (Steps(t, "t_run") /\ NoSuggestionButQuestions(Outcome(t))) =>
            /\ task'[t].pc = "idle"
            /\ response'.result.kind = "follow_up"
            /\ response'.result.blocking
            /\ response'.result.questions
                   = SuggestFailure.follow_up_questions
            /\ session_state' = session_state
            /\ job' = job
            /\ \A k \in DOMAIN response'.trace :
                   response'.trace[k].ev # "write"]_vars

\* The first turn of a session has just returned a FollowUp because nothing
\* could be suggested: no record is stored for the session.
C7_Witness ==
    /\ response.op = "turn"
    /\ NoSuggestionButQuestions(response)
    /\ response.result.kind = "follow_up"
    /\ session_state[response.session_id] = NoneD

\* ------------------------------------------------------------------- C8
FeedbackSteps(t, pc) == fb[t].pc = pc /\ fb'[t] # fb[t]
Key(k) == Get(applied, k, <<>>)

\* The deltas added one after the other, as the database adds them.
RECURSIVE FloatSum(_)
FloatSum(deltas) ==
    IF Len(deltas) = 1 THEN deltas[1]
    ELSE FloatAdd(FloatSum(SubSeq(deltas, 1, Len(deltas) - 1)),
                  deltas[Len(deltas)])

\* The same deltas in the order given by the permutation p.
Reordered(deltas, p) == [i \in DOMAIN deltas |-> deltas[p[i]]]

\* C8 (as amended): a fact has a row exactly when a delta was applied to its
\* key, and its strength is the floating-point sum of all the deltas applied
\* to the key, each added to the stored value in the order in which the
\* database executed the updates: no update of an interleaved feedback call
\* overwrites or loses an earlier delta.  Stated on the steps: the table is
\* empty before the first update, and every step that applies a delta or
\* touches the table leaves the strength of each key that received a delta
\* equal to that sum and the other rows as they were.
C8_StrengthIsRunningSum ==
    /\ DOMAIN preference_facts = DOMAIN applied
    /\ [][(applied' # applied \/ preference_facts' # preference_facts) =>
             /\ DOMAIN preference_facts' = DOMAIN applied'
             /\ \A k \in DOMAIN applied' :
                   IF Key(k) = applied'[k]
                   THEN preference_facts'[k] = preference_facts[k]
                   ELSE preference_facts'[k] = FloatSum(applied'[k])]_vars

\* C8 (as stated): the strength is the sum of the deltas whatever the order
\* of application: adding the same deltas in any other order gives the
\* stored value.
C8_SumInAnyOrder ==
    /\ DOMAIN preference_facts = DOMAIN applied
    /\ \A k \in DOMAIN applied :
          \A p \in Permutations(DOMAIN applied[k]) :
              preference_facts[k] = FloatSum(Reordered(applied[k], p))

\* Two feedback calls have interleaved their deltas on likes:easy_recipes:
\* 0.2 of the first, 0.5 of the second, 0.2 of the first again.
C8_Witness ==
    /\ Key(<<"likes", "easy_recipes">>)
           = <<Strength02, Strength05, Strength02>>
    /\ Key(<<"avoid", "easy_recipes">>) = <<FloatNeg(Strength03)>>

\* ------------------------------------------------------------------- C9
Patches == {mr.profile_patch : mr \in LLMLearned}
LikeSet(prof) == Range(prof.likes)
DislikeSet(prof) == Range(prof.dislikes)

\* C9: for the stored profile and every patch, writing the patch and then
\* the same patch again on what was written leaves the like-set and the
\* dislike-set that the first write stored.
C9_PatchIdempotent ==
    \A patch \in Patches :
        PatchApplies(profile, patch) =>
            \A once \in PatchedProfiles(profile, patch) :
                /\ PatchApplies(once, patch)
                /\ \A twice \in PatchedProfiles(once, patch) :
                      /\ LikeSet(twice) = LikeSet(once)
                      /\ DislikeSet(twice) = DislikeSet(once)

\* A feedback call has just applied a patch to a profile that an earlier
\* call had already patched with it, and the sets are the ones it read.
C9_Witness ==
    /\ response.op = "feedback"
    /\ response.result.kind = "feedback"
    /\ response.trace[1].out.profile_patch.likes_add = <<"avocado">>
    /\ response.trace[1].profile # NoneD
    /\ LikeSet(response.trace[1].profile) = {"avocado"}
    /\ DislikeSet(response.trace[1].profile) = {"kale"}
    /\ LikeSet(profile) = {"avocado"}
    /\ DislikeSet(profile) = {"kale"}
    /\ nfeedback = 2
    /\ nrequests = 0

\* ------------------------------------------------------------------ C10
\* C10 (as amended): the patch write of a feedback call stores the likes
\* that the call read together with likes_add, and the dislikes that it
\* read together with dislikes_add: nothing of the profile that was read is
\* removed, so the stored sets grow whenever no other profile write came
\* between the call's read and its write.
C10_PatchKeepsWhatItRead ==
    [][\A t \in Tasks :
         FeedbackSteps(t, "f_patch") =>
            LET patch == fb[t].memory_result.profile_patch
            IN /\ LikeSet(profile')
                     = LikeSet(fb[t].profile) \cup Range(patch.likes_add)
               /\ DislikeSet(profile')
                     = DislikeSet(fb[t].profile) \cup Range(patch.dislikes_add)
               /\ fb[t].profile = profile =>
                     /\ LikeSet(profile) \subseteq LikeSet(profile')
                     /\ DislikeSet(profile) \subseteq DislikeSet(profile')]_vars

\* C10 (as stated): no patch write of a feedback call removes a stored like
\* or dislike, also when another profile write came between the call's read
\* and its write.
C10_PatchNeverRemoves ==
    [][\A t \in Tasks :
         FeedbackSteps(t, "f_patch") =>
            /\ LikeSet(profile) \subseteq LikeSet(profile')
            /\ DislikeSet(profile) \subseteq DislikeSet(profile')]_vars

\* A chat message added the like kale after a feedback call had read the
\* profile; the call's patch write then stored what it had read, with its
\* own additions.
C10_Witness ==
    /\ nrequests = 1
    /\ conv.pc = "idle"
    /\ Get(session_state[ChatRow], "messages", <<>>) # <<>>
    /\ profile # NoneD
    /\ LikeSet(profile) = {"avocado"}
    /\ DislikeSet(profile) = {"kale"}
    /\ \E t \in Tasks :
          /\ fb[t].pc = "f_return"
          /\ fb[t].profile = [likes |-> <<>>, dislikes |-> <<>>]

\* ------------------------------------------------------------------ C11
\* The feedback call that has just returned successfully, and the patch of
\* its learning step.
FeedbackSucceeded ==
    response.op = "feedback" /\ response.result.kind = "feedback"
ReturnedPatch == response.trace[1].out.profile_patch

\* C11: when a feedback call has returned successfully, every item of the
\* learning step's likes_add is a stored like and every item of dislikes_add
\* a stored dislike, whether or not the user had a profile record before
\* the call.
C11_PatchInStoredProfile ==
    (/\ FeedbackSucceeded
     /\ ReturnedPatch.likes_add # <<>> \/ ReturnedPatch.dislikes_add # <<>>) =>
        /\ profile # NoneD
        /\ Range(ReturnedPatch.likes_add) \subseteq LikeSet(profile)
        /\ Range(ReturnedPatch.dislikes_add) \subseteq DislikeSet(profile)

\* The case the code keeps: a user with a profile record, one feedback call,
\* and the patch of its learning step in the stored profile at the return.
C11_Witness ==
    /\ FeedbackSucceeded
    /\ response.trace[1].profile = [likes |-> <<>>, dislikes |-> <<>>]
    /\ ReturnedPatch = [likes_add |-> <<"avocado">>, dislikes_add |-> <<"kale">>]
    /\ profile # NoneD
    /\ LikeSet(profile) = {"avocado"}
    /\ DislikeSet(profile) = {"kale"}
    /\ nfeedback = 1
    /\ nrequests = 0

\* ============================ feedback on meals with every list of tags
\* The recipe tags of the meal: up to six plain tags, and tags with capitals
\* and a space.
SixTags == <<"spicy", "quick", "vegan", "asian", "cheap", "light">>
LearnTagLists ==
    {SubSeq(SixTags, 1, n) : n \in 0..6}
        \cup {<<"Easy Recipes">>, <<"Spicy", "quick">>}
LearnArgs ==
    [meal_id : {1}, liked : BOOLEAN, cooked_again : BOOLEAN,
     tags : {<<>>, <<"easy", "simple">>, <<"Too_Spicy">>, <<"salty">>}]

\* A user with a profile and one meal, whose recipe has one of the tag
\* lists.
LearnInit ==
    /\ \E T \in LearnTagLists :
          meals = <<MealRow(1, [name |-> "curry"], [tags |-> T], "sug_1",
                            None)>>
    /\ session_state = [NoSessions EXCEPT !["s1"] = DoneState(1)]
    /\ NoSessionCall
    /\ profile = [likes |-> <<>>, dislikes |-> <<>>]
    /\ NothingLearned

\* process_feedback is called by a single caller, with any of the
\* arguments (lines 526-537).
LearnStart ==
    /\ Quiet
    /\ nfeedback < MaxLearn
    /\ \A t \in Tasks : FeedbackFree(t)
    /\ \E a \in LearnArgs :
         fb' = [fb EXCEPT ![1] =
                  [IdleFeedback EXCEPT !.pc = "f_meal", !.meal_id = a.meal_id,
                                       !.liked = a.liked,
                                       !.cooked_again = a.cooked_again,
                                       !.tags = a.tags]]
    /\ nfeedback' = nfeedback + 1
    /\ UNCHANGED <<meals, response, profile, preference_facts, outcomes,
                   memory_items, vector_ids, conv, clock, nrequests, applied>>
    /\ UNCHANGED sessionVars

LearnNext ==
    \/ Respond
    \/ LearnStart
    \/ FeedbackMeal(1)
    \/ FeedbackOutcome(1)
    \/ FeedbackLearn(1)
    \/ FeedbackMemory(1)
    \/ FeedbackVector(1)
    \/ FeedbackFact(1)
    \/ FeedbackPatch(1)
    \/ FeedbackReread(1)
    \/ FeedbackReturn(1)

\* One caller whose feedback runs through the whole of process_feedback.
LearnSpec == LearnInit /\ [][LearnNext]_vars

\* The learning step of the call in flight has answered with its fallback
\* (the LLM call or the validation of its answer failed).
FallbackLearned ==
    /\ fb[1].memory_result # NoneD
    /\ fb[1].memory_result \notin LLMLearned
LearnedFacts == fb[1].memory_result.preference_facts

\* ------------------------------------------------------------------ C12
\* x < y of two doubles
MagnitudeLess(x, y) ==
    IF y.int = 0 THEN FALSE
    ELSE IF x.int = 0 THEN TRUE
    ELSE \/ x.exp < y.exp
         \/ x.exp = y.exp /\ LessFrom(Mantissa(x), Mantissa(y), 4)
FloatLess(x, y) ==
    IF x.neg = y.neg
    THEN IF x.neg THEN MagnitudeLess(y, x) ELSE MagnitudeLess(x, y)
    ELSE x.neg /\ (x.int # 0 \/ y.int # 0)

\* The fallback has answered a liked = true, cooked_again = true call.
CookedAgainLearned ==
    /\ FallbackLearned
    /\ fb[1].liked
    /\ fb[1].cooked_again
\* What the fallback answers to the same call with cooked_again = false.
LikedOnly ==
    FallbackLearning(fb[1].meal.title, fb[1].meal.tags, TRUE, FALSE,
                     fb[1].tags)
TagsUsed == IF Len(fb[1].meal.tags) < 5 THEN Len(fb[1].meal.tags) ELSE 5

\* C12: for liked = true and cooked_again = true the fallback produces, for
\* every recipe tag of the meal, a delta on the key likes:<tag> (the tag
\* spelled as the code spells keys) that is positive and strictly larger
\* than the delta that liked = true, cooked_again = false produces for the
\* same tag; and the salience of its memory item is strictly larger, too.
C12_EveryTagGetsDelta ==
    CookedAgainLearned =>
        \A i \in DOMAIN fb[1].meal.tags :
            \E j \in DOMAIN fb[1].memory_result.preference_facts :
                LET fact == fb[1].memory_result.preference_facts[j]
                IN /\ fact.fact_key
                          = <<"likes", LowerUnderscore(fb[1].meal.tags[i])>>
                   /\ FloatLess(FloatZero, fact.delta_strength)
                   /\ \E k \in DOMAIN LikedOnly.preference_facts :
                         /\ LikedOnly.preference_facts[k].fact_key
                                = fact.fact_key
                         /\ FloatLess(
                               LikedOnly.preference_facts[k].delta_strength,
                               fact.delta_strength)
           /\ FloatLess(LikedOnly.memory_items[1].salience,
                        fb[1].memory_result.memory_items[1].salience)

\* Feedback liked = true, cooked_again = true on a meal with six recipe
\* tags has run to its return: the first five tags have 0.5 on their likes:
\* keys, the sixth tag (light) has no preference fact.
C12_Witness ==
    /\ CookedAgainLearned
    /\ fb[1].pc = "f_return"
    /\ fb[1].meal.tags = SixTags
    /\ fb[1].tags = <<>>
    /\ Len(LearnedFacts) = 5
    /\ DOMAIN preference_facts = {<<"likes", SixTags[i]>> : i \in 1..5}
    /\ \A k \in DOMAIN preference_facts : preference_facts[k] = Strength05
    /\ <<"likes", "light">> \notin DOMAIN preference_facts

\* ------------------------------------------------------------------ C13
\* The stored modification history of a session, and s being the beginning
\* of the sequence t.
StoredModifications(sid) == Get(session_state[sid], "modifications", <<>>)
IsPrefix(s, t) == Len(s) <= Len(t) /\ SubSeq(t, 1, Len(s)) = s

\* C13 (as amended): a successful modification stores step
\* awaiting_selection, the list that its own suggestion step generated, no
\* images, the ingredients of the record it read followed by the new items,
\* and the history of the record it read followed by its text.  The history
\* is the one since the last chat turn: the record that a chat turn writes
\* holds no history.
C13_ModificationExtendsWhatItRead ==
    [][\A t \in Tasks :
         /\ (Steps(t, "m_run") /\ Outcome(t).result.kind = "suggestions") =>
               LET a == task[t]
                   new == session_state'[a.session_id]
               IN /\ task'[t].pc = "m_commit"
                  /\ new.step = "awaiting_selection"
                  /\ new.suggestions = Outcome(t).trace[1].out.suggestions
                  /\ new.suggestion_images = NoneD
                  /\ new.normalized_input.ingredients
                         = a.state.normalized_input.ingredients
                               \o SplitModification(a.modification)
                  /\ new.modifications
                         = Get(a.state, "modifications", <<>>)
                               \o <<a.modification>>
         /\ (Steps(t, "t_run") /\ session_state' # session_state) =>
               "modifications"
                   \notin DOMAIN session_state'[task[t].session_id]]_vars

\* C13 (as stated): the stored history is the list of all the modifications
\* ever applied in the session, so no step takes an entry away from it.
C13_HistoryIsComplete ==
    [][\A sid \in SessionIds :
         IsPrefix(StoredModifications(sid), StoredModifications(sid)')]_vars

\* Two modifications in a row: the second has extended the ingredients and
\* the history that the first had stored.
C13_Witness ==
    /\ response.op = "modify"
    /\ response.result.kind = "suggestions"
    /\ StoredModifications(response.session_id) = <<"tofu", "tofu, peas">>
    /\ session_state[response.session_id].normalized_input.ingredients
           = <<"i have rice", "tofu", "tofu", "peas">>
    /\ session_state[response.session_id].suggestions # <<>>

\* ---------------------------------------------------------------- C14
\* The record a process_modification call finds when it reads the session.
NoMealContext(state) ==
    state = NoneD \/ "normalized_input" \notin DOMAIN state

\* C14: process_modification fails with a validation error when it reads
\* no state for the session or a state without a normalized input: the read
\* settles the error and the raise that follows delivers it; no agent is
\* called (the call's trace is empty), no background job is started and
\* neither step changes the stored session record.
C14_ModificationNeedsMealContext ==
    [][\A t \in Tasks :
         /\ (/\ Steps(t, "m_read")
             /\ NoMealContext(session_state[task[t].session_id]))
               => /\ task'[t].pc = "m_raise"
                  /\ Failed(Outcome(t))
                  /\ Reply(Outcome(t)).code = "VALIDATION_ERROR"
                  /\ Outcome(t).trace = <<>>
                  /\ job' = job
                  /\ session_state' = session_state
         /\ Steps(t, "m_raise") =>
               /\ Delivers(t)
               /\ response'.op = "modify"
               /\ task'[t] = IdleTask
               /\ job' = job]_vars

\* A modification was refused on a session that waits for a follow-up
\* answer: a record is stored, without a normalized input.
C14_Witness ==
    /\ response.op = "modify"
    /\ Failed(response)
    /\ response.result.msg = "no_meal_context"
    /\ StoredStep(response.session_id) = "awaiting_followup"
    /\ LiveJobs = {}

\* ---------------------------------------------------------------- C15
\* The image job of the batch a selection chose from has not written yet.
ImageJobRunning(sid) ==
    \E j \in LiveJobs : j.session_id = sid

\* The record a selection read holds no picture for the suggestion it chose.
NoImageRead(t) ==
    task[t].suggestion_id
        \notin DOMAIN Get(task[t].state, "suggestion_images", NoneD)

\* C15: a process_selection call that read a valid pending selection goes on
\* to the recipe, the Meal, the done write and the Recipe response without
\* reading the session again and whatever the image job does: its next step
\* is always possible, creates one Meal, then answers with the Recipe of
\* that Meal.  When the record it read holds no picture for the selected id,
\* the Meal's generated image path and the response's image_url are both
\* null.
C15_ImagesNeverGateSelection ==
    /\ \A t \in Tasks :
          /\ (Quiet /\ task[t].pc = "s_meal") => ENABLED SelectCreateMeal(t)
          /\ (Quiet /\ task[t].pc = "s_write") => ENABLED SelectWrite(t)
          /\ (Quiet /\ task[t].pc = "s_commit") => ENABLED SelectReturn(t)
    /\ [][\A t \in Tasks :
            /\ (Steps(t, "s_read") /\ ~Failed(Outcome(t))) =>
                  /\ task'[t].pc = "s_meal"
                  /\ task'[t].state = session_state[task[t].session_id]
                  /\ response' = response
            /\ Steps(t, "s_meal") =>
                  /\ task'[t].pc = "s_write"
                  /\ task'[t].state = task[t].state
                  /\ Len(meals') = Len(meals) + 1
                  /\ meals'[Len(meals')].meal_id = task'[t].meal_id
                  /\ NoImageRead(t) =>
                        meals'[Len(meals')].generated_image_path = None
            /\ Steps(t, "s_write") =>
                  /\ task'[t].pc = "s_commit"
                  /\ Outcome(t).result.kind = "recipe"
                  /\ Outcome(t).result.meal_id = task[t].meal_id
                  /\ MealsOf(task[t].suggestion_id) # {}
                  /\ NoImageRead(t) =>
                        Outcome(t).result.image_url = None
            /\ Steps(t, "s_commit") => Delivers(t)]_vars

\* A selection answered with a recipe and no picture while the image job of
\* the session was still running; the Meal it stored has no picture either.
C15_Witness ==
    /\ response.op = "select"
    /\ response.result.kind = "recipe"
    /\ response.result.image_url = None
    /\ ImageJobRunning(response.session_id)
    /\ \E i \in DOMAIN meals :
          /\ meals[i].meal_id = response.result.meal_id
          /\ meals[i].generated_image_path = None

\* ---------------------------------------------------------------- C16

\* The record a chat turn or a modification builds from its arguments, the
\* record it read and what its agent steps answered.
RecordBuilt(a, r) ==
    LET vout == IF a.image_paths # <<>>
                THEN OutputOf(r.trace, "vision") ELSE NoneD
        vres == VisionForNormalize(a.state, vout)
    IN IF a.op = "modify"
       THEN ModifiedState(a.state,
                [a.state.normalized_input EXCEPT
                    !.ingredients = @ \o SplitModification(a.modification)],
                OutputOf(r.trace, "suggest").suggestions, a.modification)
       ELSE IF r.result.kind = "suggestions"
       THEN AwaitingSelectionState(
                ApplyMaxTime(OutputOf(r.trace, "normalize"), a.max_time),
                vres, OutputOf(r.trace, "suggest").suggestions,
                a.image_paths, a.text)
       ELSE IF \E i \in DOMAIN r.trace : r.trace[i].ev = "normalize"
       THEN NormalizeFollowUpState(vres, a.image_paths)
       ELSE VisionFollowUpState(vout, a.image_paths, a.text)

\* A chat turn, a modification or a selection writes the record of the
\* session in this step.
CallWrites(sid) ==
    \E t \in Tasks :
        /\ task[t].session_id = sid
        /\ Steps(t, "t_run") \/ Steps(t, "m_run") \/ Steps(t, "s_write")
        /\ session_state'[sid] # session_state[sid]

\* The two records agree on every field but the pictures.
SameButImages(old, new) ==
    /\ DOMAIN old \ {"suggestion_images"} = DOMAIN new \ {"suggestion_images"}
    /\ \A k \in DOMAIN old \ {"suggestion_images"} : new[k] = old[k]

\* C16: when chat turns and modifications race on one session, the record
\* stored once they have completed is the whole record of the one that
\* wrote last.  Each write replaces the stored record by the whole record
\* its call built from what that call read and what its agents answered,
\* with no key or value of the record it replaced; and from then on the
\* stored record keeps every field of it (the pictures apart, which the
\* image job adds) until a call writes again.
C16_LaterWriteReplacesRecord ==
    [][/\ \A t \in Tasks :
            ((Steps(t, "t_run") \/ Steps(t, "m_run")) /\ Wrote(Outcome(t)))
               => session_state'[task[t].session_id]
                      = RecordBuilt(task[t], Outcome(t))
       /\ \A sid \in SessionIds :
            ~CallWrites(sid) =>
               SameButImages(session_state[sid], session_state'[sid])]_vars

\* A chat turn and a modification ran at the same time on one session; the
\* modification read the turn's record, so it wrote last, and both have
\* completed.  The stored record is not the modification's: it has the
\* pictures of the turn's image job and no modification history.
C16_Witness ==
    /\ ncalls = 2
    /\ response.op = "modify"
    /\ response.task = 2
    /\ response.result.kind = "suggestions"
    /\ Wrote(response)
    /\ \A t \in Tasks : task[t] = IdleTask
    /\ "suggestion_images" \in DOMAIN session_state[response.session_id]
    /\ Get(session_state[response.session_id], "modifications", <<>>) = <<>>

\* ---------------------------------------------------------------- C17
\* The positions of the events `ev` in the trace of a call.
Events(tr, ev) == {i \in DOMAIN tr : tr[i].ev = ev}

\* The call of task t is suspended in the commit of its write.
Committing(t) == task[t].pc \in {"t_commit", "m_commit", "s_commit"}

\* C17: a call of process_chat_turn, process_modification or
\* process_selection writes the session record at most once, as its last
\* step before it returns: the step of a call that changes the record leaves
\* the call in the commit of that write, the step after it returns and
\* changes no table, and in the trace of the call the write comes last,
\* after the agent calls its record depends on (vision before a vision
\* follow-up write; vision if there are images, normalization and
\* suggestion before the awaiting_selection write; suggestion before a
\* modification's write; recipe generation and the Meal before the done
\* write).
C17_OneWriteAfterAgents ==
    [][\A t \in Tasks :
         /\ (task'[t] # task[t] /\ session_state' # session_state) =>
               LET a == task[t]
                   r == Outcome(t)
                   tr == r.trace
               IN /\ Committing(t)'
                  /\ ~Committing(t)
                  /\ Events(tr, "write") = {Len(tr)}
                  /\ a.op = "turn" =>
                        IF r.result.kind = "follow_up"
                        THEN /\ Events(tr, "vision") \cup Events(tr, "normalize")
                                    # {}
                             /\ Events(tr, "suggest") = {}
                             /\ a.image_paths # <<>>
                                    => Events(tr, "vision") = {1}
                        ELSE /\ r.result.kind = "suggestions"
                             /\ Events(tr, "normalize") # {}
                             /\ Events(tr, "suggest") = {Len(tr) - 1}
                             /\ a.image_paths # <<>>
                                    => Events(tr, "vision") = {1}
                  /\ a.op = "modify" => Events(tr, "suggest") = {1}
                  /\ a.op = "select" =>
                        /\ Events(tr, "recipe") = {1}
                        /\ meals' = meals
                        /\ \E i \in DOMAIN meals :
                              /\ meals[i].meal_id = r.result.meal_id
                              /\ meals[i].title = tr[1].out.name
         /\ (Committing(t) /\ task'[t] # task[t]) =>
               /\ Delivers(t)
               /\ task'[t] = IdleTask
               /\ Wrote(response')]_vars

\* A chat turn with a picture returned suggestions: its trace is vision,
\* normalization, suggestion, write.
C17_Witness ==
    /\ response.op = "turn"
    /\ response.result.kind = "suggestions"
    /\ Len(response.trace) = 4
    /\ response.trace[1].ev = "vision"
    /\ response.trace[2].ev = "normalize"
    /\ response.trace[3].ev = "suggest"
    /\ response.trace[4].ev = "write"
    /\ StoredStep(response.session_id) = "awaiting_selection"

\* ---------------------------------------------------------------- C18
\* The failures of process_selection that come from the stored record, not
\* from a generative step.
StructuralErrors ==
    {"session_not_found", "no_pending_selection", "suggestion_not_found"}

\* C18: whatever the generative steps answer or fail with, and for every
\* normalized input kind (unknown without questions included), a
\* process_chat_turn hands back a FollowUp or a Suggestions response, and a
\* process_selection fails only on the checks of the record it read.
C18_GenerativeFailuresDegrade ==
    /\ response.op = "turn" =>
          /\ ~Failed(response)
          /\ response.result.kind \in {"follow_up", "suggestions"}
    /\ response.op = "select" =>
          IF Failed(response)
          THEN /\ response.result.msg \in StructuralErrors
               /\ response.trace = <<>>
          ELSE response.result.kind = "recipe"

\* A chat turn whose normalization answered unknown without questions was
\* handed back as a validation failure of the suggestion step.
C18_Witness ==
    /\ response.op = "turn"
    /\ Failed(response)
    /\ Reply(response).code = "VALIDATION_ERROR"
    /\ LET n == OutputOf(response.trace, "normalize")
       IN /\ n.input_kind = "unknown"
          /\ n.missing_info_questions = <<>>
    /\ OutputOf(response.trace, "suggest") = SuggestRaised

\* ------------------------------------------- the vision step with retries
\* What openai_client.vision_json does on one call: it raises, or it
\* answers with JSON (the third answer has a kind VisionResult rejects).
VisionKinds == {"meal_photo", "ingredients_photo", "unknown"}
VisionCalls ==
    { [raises |-> TRUE],
      [raises |-> FALSE, kind |-> "meal_photo", confidence |-> Strength05,
       follow_up_questions |-> <<>>],
      [raises |-> FALSE, kind |-> "dessert", confidence |-> Strength05,
       follow_up_questions |-> <<>>],
      [raises |-> FALSE, kind |-> "unknown", confidence |-> Strength02,
       follow_up_questions |-> <<>>] }

\* One underlying call per attempt the loop could make.
RECURSIVE VisionScripts(_)
VisionScripts(n) ==
    IF n = 0 THEN {<<>>}
    ELSE {Append(s, c) : s \in VisionScripts(n - 1), c \in VisionCalls}

\* VisionResult.model_validate
ValidVision(answer) == ~answer.raises /\ answer.kind \in VisionKinds

\* VisionAgent.analyze, lines 64-71: the answer when the call or the
\* validation fails
AnalyzeFailed ==
    [kind |-> "unknown", confidence |-> FloatZero,
     warnings |-> <<"vision analysis failed">>,
     follow_up_questions |-> <<"describe the image">>]

\* VisionAgent.analyze_with_retry, lines 99-105
RetriesFailed ==
    [kind |-> "unknown", confidence |-> FloatZero,
     warnings |-> <<"vision analysis failed after retries">>,
     follow_up_questions |-> <<"trouble analyzing, describe the image">>]

\* VisionAgent.analyze, lines 52-71: what the coroutine returns or raises
\* for one answer of the underlying call.
Analyze(answer) ==
    IF ValidVision(answer)
    THEN [raised |-> FALSE,
          value |-> [kind |-> answer.kind, confidence |-> answer.confidence,
                     warnings |-> <<>>,
                     follow_up_questions |-> answer.follow_up_questions]]
    ELSE [raised |-> FALSE, value |-> AnalyzeFailed]

\* The locals of one analyze_with_retry call: the loop index, the number
\* of underlying calls made so far, and what those calls will do.
VisionFrame(script, max_retries) ==
    [op |-> "vision", pc |-> "attempt", script |-> script,
     max_retries |-> max_retries, attempt |-> 0, calls |-> 0,
     result |-> NoneD]

VisionInit ==
    /\ \E script \in VisionScripts(MaxRetries + 1), m \in 0..MaxRetries :
          task = [t \in Tasks |->
                    IF t = 1 THEN VisionFrame(script, m) ELSE IdleTask]
    /\ session_state = NoSessions
    /\ meals = <<>>
    /\ job = NoJobs
    /\ ncalls = 0
    /\ response = NoResponse
    /\ consumed = [s \in SessionIds |-> FALSE]
    /\ profile = NoneD
    /\ NothingLearned

\* lines 86-105: one pass of the loop body, and the return that follows the
\* loop when the last attempt raised
VisionAttempt ==
    /\ task[1].pc = "attempt"
    /\ LET f == task[1]
           out == Analyze(f.script[f.calls + 1])
       IN task' = [task EXCEPT ![1] =
             IF ~out.raised
             THEN [f EXCEPT !.calls = @ + 1, !.result = out.value,
                            !.pc = "returned"]
             ELSE IF f.attempt < f.max_retries
             THEN [f EXCEPT !.calls = @ + 1, !.attempt = @ + 1]
             ELSE [f EXCEPT !.calls = @ + 1, !.result = RetriesFailed,
                            !.pc = "returned"]]
    /\ UNCHANGED <<session_state, meals, job, ncalls, response, consumed>>
    /\ UNCHANGED feedbackVars

\* The caller takes the result.
VisionReturn ==
    /\ task[1].pc = "returned"
    /\ task' = [task EXCEPT ![1].pc = "done"]
    /\ response' = [op |-> "vision", task |-> 1, session_id |-> None,
                    result |-> task[1].result, trace |-> <<>>]
    /\ UNCHANGED <<session_state, meals, job, ncalls, consumed>>
    /\ UNCHANGED feedbackVars

VisionNext == VisionAttempt \/ VisionReturn
VisionSpec == VisionInit /\ [][VisionNext]_vars

\* ---------------------------------------------------------------- C19
\* The underlying calls made so far in the analyze_with_retry call.
CallsMade == SubSeq(task[1].script, 1, task[1].calls)
VisionReturned == task[1].op = "vision" /\ task[1].pc \in {"returned", "done"}

\* When every attempt made has failed the result is unknown with confidence
\* 0 and a question, and the attempts never exceed max_retries + 1.
VisionFailureDegrades ==
    /\ task[1].op = "vision" => task[1].calls <= task[1].max_retries + 1
    /\ (VisionReturned /\ \A i \in DOMAIN CallsMade : ~ValidVision(CallsMade[i]))
          => /\ task[1].result.kind = "unknown"
             /\ task[1].result.confidence = FloatZero
             /\ task[1].result.follow_up_questions # <<>>

\* C19: when the underlying vision call fails, a second attempt is made
\* before the fallback is returned (given a retry budget of at least one);
\* when every attempt fails the result is unknown with confidence 0 and a
\* clarifying question; the attempts never exceed max_retries + 1.
C19_FailedVisionIsRetried ==
    /\ VisionFailureDegrades
    /\ (/\ VisionReturned
        /\ task[1].max_retries >= 1
        /\ ~ValidVision(task[1].script[1]))
          => task[1].calls >= 2

\* With the default budget of one retry the first call raised and the
\* fallback was returned after that single call.
C19_Witness ==
    /\ task[1].op = "vision"
    /\ task[1].pc = "returned"
    /\ task[1].max_retries = 1
    /\ task[1].script[1].raises
    /\ ValidVision(task[1].script[2])
    /\ task[1].calls = 1
    /\ task[1].result = AnalyzeFailed

\* ---------------------------------------------------------------- C20
Distinct(ids) ==
    \A i, j \in DOMAIN ids : i # j => ids[i] # ids[j]

\* C20: the suggestion ids of every list the suggestion step returns and of
\* every list buffered in a session are pairwise distinct, whichever of the
\* generated suggestions came without an id, so that a buffered id names
\* one suggestion.
C20_SuggestionIdsDistinct ==
    /\ \A sid \in SessionIds :
          LET stored == Get(session_state[sid], "suggestions", <<>>)
          IN /\ Distinct(SuggestionIdsOf(stored))
             /\ \A id \in Range(SuggestionIdsOf(stored)) :
                   Cardinality({i \in DOMAIN stored :
                                   stored[i].suggestion_id = id}) = 1
    /\ response.result # NoneD /\ response.result.kind = "suggestions"
          => Distinct(response.result.suggestion_ids)

\* The generator left out the id of its first suggestion and named the
\* second sug_1: both are buffered as sug_1 and handed to the caller.
C20_Witness ==
    /\ response.op = "turn"
    /\ response.result.kind = "suggestions"
    /\ response.result.suggestion_ids = <<"sug_1", "sug_1">>
    /\ LET stored == session_state[response.session_id].suggestions
       IN /\ Len(stored) = 2
          /\ stored[1].title # stored[2].title
          /\ FindSuggestion(stored, "sug_1") = stored[1]

\* ---------------------------------------------------------------- C21
\* No meal with this id is stored.
UnknownMeal(meal_id) == \A i \in DOMAIN meals : meals[i].meal_id # meal_id

\* C21: process_feedback for a meal id that is not stored fails (the router
\* answers NOT_FOUND) at the meal lookup, before any write: the lookup of
\* an unknown id leads to the raise and to nothing else, and neither step
\* changes the outcomes, the memory items, the memory index, the preference
\* facts or the profile.
C21_UnknownMealWritesNothing ==
    [][\A t \in Tasks :
         /\ (FeedbackSteps(t, "f_meal") /\ UnknownMeal(fb[t].meal_id))
               => /\ fb'[t].pc = "f_raise"
                  /\ UNCHANGED <<outcomes, memory_items, vector_ids,
                                 preference_facts, profile, applied, response>>
         /\ FeedbackSteps(t, "f_raise")
               => /\ fb[t].meal = NoneD
                  /\ UnknownMeal(fb[t].meal_id)
                  /\ response'.op = "feedback"
                  /\ Failed(response')
                  /\ Reply(response').code = "NOT_FOUND"
                  /\ response'.trace = <<>>
                  /\ fb'[t] = IdleFeedback
                  /\ UNCHANGED <<outcomes, memory_items, vector_ids,
                                 preference_facts, profile, applied>>]_vars

\* Feedback on an unknown meal was refused while an earlier feedback had
\* already been learned from: what that one stored is all there is.
C21_Witness ==
    /\ response.op = "feedback"
    /\ Failed(response)
    /\ response.result.msg = "meal_not_found"
    /\ DOMAIN outcomes = {1}
    /\ memory_items # <<>>
    /\ \A i \in DOMAIN memory_items : memory_items[i].source_meal_id = 1

\* ---------------------------------------------------------------- C22
\* The memory item records that hold `item` for the meal.
RecordsOf(item, meal_id) ==
    {i \in DOMAIN memory_items :
        /\ memory_items[i].text = item.text
        /\ memory_items[i].kind = item.kind
        /\ memory_items[i].salience = item.salience
        /\ memory_items[i].source_meal_id = meal_id}

\* The call of task t is past the loop over the memory items / the facts.
PastMemoryLoop(t) ==
    fb[t].pc \in {"f_fact", "f_patch", "f_reread", "f_return"}
PastFactLoop(t) == fb[t].pc \in {"f_patch", "f_reread", "f_return"}

\* C22: in process_feedback the write of a memory item to the memory index
\* may fail without consequence: the step that persists the item appends
\* its record and goes on whether or not the index stored it; past the
\* loops every memory item the learning step returned has a record and
\* every preference delta it returned has been applied; the call succeeds
\* with counts equal to the numbers of items and facts the learning step
\* returned.
C22_IndexFailureSwallowed ==
    /\ \A t \in Tasks :
          LET mr == fb[t].memory_result
          IN /\ PastMemoryLoop(t) =>
                   \A i \in DOMAIN mr.memory_items :
                       RecordsOf(mr.memory_items[i], fb[t].meal_id) # {}
             /\ PastFactLoop(t) =>
                   \A i \in DOMAIN mr.preference_facts :
                       mr.preference_facts[i].delta_strength
                           \in Range(Key(mr.preference_facts[i].fact_key))
    /\ (response.op = "feedback" /\ response.trace # <<>>) =>
          /\ ~Failed(response)
          /\ response.result.memory_items_written
                 = Len(response.trace[1].out.memory_items)
          /\ response.result.preference_facts_updated
                 = Len(response.trace[1].out.preference_facts)
    /\ [][\A t \in Tasks :
            /\ FeedbackSteps(t, "f_memory") =>
                  /\ Len(memory_items') = Len(memory_items) + 1
                  /\ memory_items'[Len(memory_items')].text
                         = fb[t].memory_result.memory_items[fb[t].i + 1].text
                  /\ fb'[t].pc = "f_vector"
                  /\ response' = response
            /\ FeedbackSteps(t, "f_vector") =>
                  /\ memory_items' = memory_items
                  /\ vector_ids' \in {vector_ids,
                                      vector_ids \cup {fb[t].memory_id}}
                  /\ fb'[t].pc \in {"f_memory", "f_fact", "f_patch",
                                    "f_reread"}
                  /\ response' = response]_vars

\* A feedback call succeeded and reported one memory item and one fact
\* although the memory index holds none of the stored memory items.
C22_Witness ==
    /\ response.op = "feedback"
    /\ ~Failed(response)
    /\ response.result.memory_items_written = 1
    /\ response.result.preference_facts_updated >= 1
    /\ memory_items # <<>>
    /\ vector_ids = {}
    /\ preference_facts # NoRows

\* ----------------------------------------- build_user_context on its own
\* Settings.TOP_K_MEMORIES, TOP_K_PREFERENCE_FACTS, RECENT_MEALS_COUNT
TopKMemories == 5
TopKPreferenceFacts == 10
RecentMealsCount == 5

\* The first `limit` rows of a query result (SQL LIMIT, scored[:top_k]).
Limit(rows, limit) ==
    SubSeq(rows, 1, IF Len(rows) < limit THEN Len(rows) ELSE limit)

\* What is stored for the user: n rows of a kind, in the order of the query.
Rows(n) == [i \in 1..n |-> i]
RowCounts == {0, 5, 6, 10, MaxRows}

\* The query texts: absent, empty, a meal title.
QueryTexts == {None, NoText, "curry"}

\* The sub-fetches that can raise: the three database reads, the
\* construction of the vector store and the embedding call of the search.
SubFetches == {"profile", "facts", "meals", "store", "embed"}

ContextFrame(query, facts, recent, memories, failing) ==
    [op |-> "context", pc |-> "c_profile", query_text |-> query,
     stored |-> [facts |-> Rows(facts), meals |-> Rows(recent),
                 memories |-> Rows(memories)],
     failing |-> failing,
     profile |-> NoneD, preference_facts |-> <<>>, recent_meals |-> <<>>,
     memories |-> <<>>, raised |-> None]

ContextInit ==
    /\ \E query \in QueryTexts, facts \in RowCounts, recent \in RowCounts,
          memories \in RowCounts, failing \in SUBSET SubFetches :
          task = [t \in Tasks |->
                    IF t = 1
                    THEN ContextFrame(query, facts, recent, memories, failing)
                    ELSE IdleTask]
    /\ session_state = NoSessions
    /\ meals = <<>>
    /\ job = NoJobs
    /\ ncalls = 0
    /\ response = NoResponse
    /\ consumed = [s \in SessionIds |-> FALSE]
    /\ profile \in {NoneD, [likes |-> <<>>, dislikes |-> <<>>]}
    /\ NothingLearned

\* An await of the coroutine raises: the exception leaves build_user_context.
ContextRaises(fetch) ==
    task' = [task EXCEPT ![1].pc = "c_raised", ![1].raised = fetch]

\* line 58: profile = await db.get_profile(self.user_id) or {}
ContextProfile ==
    /\ task[1].pc = "c_profile"
    /\ IF "profile" \in task[1].failing
       THEN ContextRaises("profile")
       ELSE task' = [task EXCEPT ![1].pc = "c_facts",
                                 ![1].profile = GetProfile]
    /\ UNCHANGED <<session_state, meals, job, ncalls, response, consumed>>
    /\ UNCHANGED feedbackVars

\* lines 61-64
ContextFacts ==
    /\ task[1].pc = "c_facts"
    /\ IF "facts" \in task[1].failing
       THEN ContextRaises("facts")
       ELSE task' = [task EXCEPT ![1].pc = "c_meals",
                        ![1].preference_facts =
                            Limit(task[1].stored.facts, TopKPreferenceFacts)]
    /\ UNCHANGED <<session_state, meals, job, ncalls, response, consumed>>
    /\ UNCHANGED feedbackVars

\* lines 67-70
ContextMeals ==
    /\ task[1].pc = "c_meals"
    /\ IF "meals" \in task[1].failing
       THEN ContextRaises("meals")
       ELSE task' = [task EXCEPT ![1].pc = "c_search",
                        ![1].recent_meals =
                            Limit(task[1].stored.meals, RecentMealsCount)]
    /\ UNCHANGED <<session_state, meals, job, ncalls, response, consumed>>
    /\ UNCHANGED feedbackVars

\* VectorStore.search: nothing stored gives nothing; a failing embedding
\* call gives nothing; else the top_k most similar memories.
Search(stored, failing, top_k) ==
    IF stored = <<>> THEN <<>>
    ELSE IF "embed" \in failing THEN <<>>
    ELSE Limit(stored, top_k)

\* lines 73-86: the memory search inside try/except, then the bundle
ContextSearch ==
    /\ task[1].pc = "c_search"
    /\ LET f == task[1]
           found == IF f.query_text \in {None, NoText} THEN <<>>
                    ELSE IF "store" \in f.failing THEN <<>>
                    ELSE Search(f.stored.memories, f.failing, TopKMemories)
       IN task' = [task EXCEPT ![1].pc = "c_done", ![1].memories = found]
    /\ UNCHANGED <<session_state, meals, job, ncalls, response, consumed>>
    /\ UNCHANGED feedbackVars

ContextNext == ContextProfile \/ ContextFacts \/ ContextMeals \/ ContextSearch
ContextSpec == ContextInit /\ [][ContextNext]_vars

\* ---------------------------------------------------------------- C23
ContextCall == task[1].op = "context"

\* The bundle is within its limits, and without a query or with a failing
\* memory search its memory list is empty.
ContextWithinLimits ==
    ContextCall =>
       /\ Len(task[1].preference_facts) <= TopKPreferenceFacts
       /\ Len(task[1].recent_meals) <= RecentMealsCount
       /\ Len(task[1].memories) <= TopKMemories
       /\ (/\ task[1].pc = "c_done"
           /\ \/ task[1].query_text \in {None, NoText}
              \/ task[1].failing \cap {"store", "embed"} # {})
             => task[1].memories = <<>>

\* C23: build_user_context never fails because a sub-fetch failed, be it
\* the profile, the preference facts, the recent meals or the memory
\* search; a failing memory search or an absent query yields an empty
\* memory list; the bundle holds at most 10 preference facts, 5 recent
\* meals and 5 memories.
C23_ContextNeverFails ==
    /\ ContextWithinLimits
    /\ ContextCall => task[1].pc # "c_raised"

\* The read of the recent meals raised after the profile and the facts had
\* been fetched, and the exception left build_user_context.
C23_Witness ==
    /\ ContextCall
    /\ task[1].pc = "c_raised"
    /\ task[1].raised = "meals"
    /\ Len(task[1].preference_facts) = TopKPreferenceFacts
    /\ Len(task[1].stored.facts) > TopKPreferenceFacts

\* ---------------------------------------------------------------- C24
\* C24: the outcomes are keyed by meal, one row per meal. A submission for
\* a known meal leaves the rows of the other meals alone and makes the
\* meal's row hold its own liked, cooked_again, tags and notes; the
\* creation time of the row is the time of the first submission for the
\* meal and a later submission keeps it.
C24_OneOutcomePerMeal ==
    /\ \A m \in DOMAIN outcomes : ~UnknownMeal(m)
    /\ [][\A t \in Tasks :
            /\ (FeedbackSteps(t, "f_meal") /\ ~UnknownMeal(fb[t].meal_id)) =>
                  fb'[t].pc = "f_outcome" /\ outcomes' = outcomes
            /\ FeedbackSteps(t, "f_outcome") =>
               LET f == fb[t]
                   row == outcomes'[f.meal_id]
               IN /\ DOMAIN outcomes' = DOMAIN outcomes \cup {f.meal_id}
                  /\ \A m \in DOMAIN outcomes \ {f.meal_id} :
                        outcomes'[m] = outcomes[m]
                  /\ row.liked = f.liked
                  /\ row.cooked_again = f.cooked_again
                  /\ row.tags = f.tags
                  /\ row.notes = f.notes
                  /\ row.created_at =
                        IF f.meal_id \in DOMAIN outcomes
                        THEN outcomes[f.meal_id].created_at
                        ELSE clock]_vars

\* The second submission for meal 1 (disliked, with a note) has replaced
\* the values of the first one (liked, already learned from), and the row
\* still has the creation time of the first.
C24_Witness ==
    /\ nfeedback = 2
    /\ fb[1].pc = "f_learn"
    /\ fb[2].pc = "idle"
    /\ DOMAIN outcomes = {1}
    /\ outcomes[1].created_at = 0
    /\ clock = 2
    /\ ~outcomes[1].liked
    /\ outcomes[1].notes = "bland"
    /\ \E i \in DOMAIN memory_items : memory_items[i].kind = "like"

\* ---------------------------------------------------------------- C25
\* The keys of the feedback-tag vocabulary.
FeedbackVocabulary == {<<"avoid", "very_spicy">>, <<"likes", "easy_recipes">>}

\* C25: the fallback produces exactly one delta per recipe tag of the meal,
\* in the order of the tags, on the key likes:<tag> with a positive delta
\* when the meal was liked and on avoid:<tag> with a negative delta when it
\* was disliked, whatever cooked_again is and however many tags there are;
\* the deltas that follow are those of the feedback tags.
C25_OneSignedDeltaPerTag ==
    FallbackLearned =>
        LET T == fb[1].meal.tags
        IN /\ Len(LearnedFacts) >= Len(T)
           /\ \A i \in 1..Len(T) :
                 i \in DOMAIN LearnedFacts =>
                    /\ LearnedFacts[i].fact_key
                          = <<IF fb[1].liked THEN "likes" ELSE "avoid",
                              LowerUnderscore(T[i])>>
                    /\ IF fb[1].liked
                       THEN FloatLess(FloatZero,
                                      LearnedFacts[i].delta_strength)
                       ELSE FloatLess(LearnedFacts[i].delta_strength,
                                      FloatZero)
           /\ \A j \in DOMAIN LearnedFacts :
                 j > Len(T) => LearnedFacts[j].fact_key \in FeedbackVocabulary

\* Feedback on a disliked meal that was cooked again has run to its return:
\* the tags got +0.5 on the avoid: keys, and that is what is stored.
C25_Witness ==
    /\ FallbackLearned
    /\ fb[1].pc = "f_return"
    /\ DOMAIN preference_facts = {<<"avoid", "spicy">>, <<"avoid", "quick">>}
    /\ \A k \in DOMAIN preference_facts : preference_facts[k] = Strength05
    /\ ~fb[1].liked
    /\ fb[1].cooked_again
    /\ fb[1].meal.tags = <<"Spicy", "quick">>
    /\ fb[1].tags = <<>>
    /\ LearnedFacts = <<[fact_key |-> <<"avoid", "spicy">>,
                         delta_strength |-> Strength05],
                        [fact_key |-> <<"avoid", "quick">>,
                         delta_strength |-> Strength05]>>

\* ---------------------------------------------------------------- C26
\* The deltas that follow those of the recipe tags, and the feedback tags
\* of the call that are in the vocabulary.
FeedbackTagFacts ==
    SubSeq(LearnedFacts, TagsUsed + 1, Len(LearnedFacts))
TooSpicyTags ==
    {i \in DOMAIN fb[1].tags : Lower(fb[1].tags[i]) \in {"too_spicy", "too_hot"}}
EasyTags ==
    {i \in DOMAIN fb[1].tags : Lower(fb[1].tags[i]) \in {"easy", "simple"}}
FactsOn(facts, key) == {j \in DOMAIN facts : facts[j].fact_key = key}

\* C26: every recognized "too spicy" feedback tag adds one negative delta
\* on avoid:very_spicy, every recognized "easy" feedback tag adds one
\* positive delta on likes:easy_recipes, and the other feedback tags add
\* nothing.
C26_FeedbackTagDeltas ==
    FallbackLearned =>
        LET spicy == FactsOn(FeedbackTagFacts, <<"avoid", "very_spicy">>)
            easy == FactsOn(FeedbackTagFacts, <<"likes", "easy_recipes">>)
        IN /\ Cardinality(spicy) = Cardinality(TooSpicyTags)
           /\ Cardinality(easy) = Cardinality(EasyTags)
           /\ spicy \cup easy = DOMAIN FeedbackTagFacts
           /\ \A j \in spicy :
                 FloatLess(FeedbackTagFacts[j].delta_strength, FloatZero)
           /\ \A j \in easy :
                 FloatLess(FloatZero, FeedbackTagFacts[j].delta_strength)

\* Feedback with the tag Too_Spicy on a meal without recipe tags has run to
\* its return: one delta of +0.3 on avoid:very_spicy, and that is stored.
C26_Witness ==
    /\ FallbackLearned
    /\ fb[1].pc = "f_return"
    /\ DOMAIN preference_facts = {<<"avoid", "very_spicy">>}
    /\ \A k \in DOMAIN preference_facts : preference_facts[k] = Strength03
    /\ fb[1].meal.tags = <<>>
    /\ fb[1].tags = <<"Too_Spicy">>
    /\ LearnedFacts = <<[fact_key |-> <<"avoid", "very_spicy">>,
                         delta_strength |-> Strength03]>>

\* ---------------------------------------------------------------- C27
\* The arguments of the normalization call in the trace of a call.
NormalizeCall(tr) == tr[CHOOSE i \in DOMAIN tr : tr[i].ev = "normalize"]
ReadStep(a) == IF a.state = NoneD THEN None ELSE Get(a.state, "step", None)

\* C27: a chat turn that has read a record of step awaiting_followup and
\* reaches the normalization step passes its text as the previous answers;
\* if it has no images it passes the vision result of the record it read,
\* and the record it writes holds that vision result.  A turn that has read
\* no record, or one of step awaiting_selection or done, passes no previous
\* answers.
C27_FollowUpAnswerIsContext ==
    [][\A t \in Tasks :
         (Steps(t, "t_run") /\ Events(Outcome(t).trace, "normalize") # {}) =>
            LET a == task[t]
                call == NormalizeCall(Outcome(t).trace)
                stored == Get(a.state, "vision_result", NoneD)
            IN IF ReadStep(a) = "awaiting_followup"
               THEN /\ call.previous_answers = a.text
                    /\ a.image_paths = <<>> =>
                          /\ call.vision_result = stored
                          /\ Wrote(Outcome(t)) =>
                                session_state'[a.session_id].vision_result
                                    = stored
               ELSE /\ ReadStep(a) \in {None, "awaiting_selection", "done"}
                    /\ call.previous_answers = None]_vars

\* A turn without images has answered the question that the vision step of
\* an earlier turn asked: normalization got the text as the answer and the
\* stored vision result, which is in the record that offers suggestions.
C27_Witness ==
    /\ response.op = "turn"
    /\ Events(response.trace, "vision") = {}
    /\ Events(response.trace, "normalize") # {}
    /\ NormalizeCall(response.trace).previous_answers = "pasta"
    /\ NormalizeCall(response.trace).vision_result = VisionFallback
    /\ StoredStep(response.session_id) = "awaiting_selection"
    /\ session_state[response.session_id].vision_result = VisionFallback

\* ---------------------------------------------------------------- C28
\* The vision step of the call asked back: unknown, with questions.
VisionAsked(tr) ==
    /\ Events(tr, "vision") # {}
    /\ OutputOf(tr, "vision").kind = "unknown"
    /\ OutputOf(tr, "vision").follow_up_questions # <<>>

\* C28: a chat turn with images whose vision step returns unknown with
\* questions ends at once, whatever record it had read: it writes a record
\* of step awaiting_followup with that vision result, the images and the
\* text, returns a blocking FollowUp with the questions of the vision step,
\* calls neither the normalization nor the suggestion step and starts no
\* image job.
C28_VisionQuestionStopsTurn ==
    [][\A t \in Tasks :
         /\ (Steps(t, "t_run") /\ task[t].image_paths # <<>>
                               /\ VisionAsked(Outcome(t).trace)) =>
            LET a == task[t]
                vout == OutputOf(Outcome(t).trace, "vision")
            IN /\ session_state'[a.session_id]
                     = [step |-> "awaiting_followup", vision_result |-> vout,
                        image_paths |-> a.image_paths,
                        original_text |-> a.text]
               /\ Outcome(t).result
                     = [kind |-> "follow_up",
                        questions |-> vout.follow_up_questions,
                        blocking |-> TRUE]
               /\ Events(Outcome(t).trace, "normalize") = {}
               /\ Events(Outcome(t).trace, "suggest") = {}
               /\ task'[t].pc = "t_commit"
               /\ job' = job
         /\ (Steps(t, "t_commit") /\ VisionAsked(task[t].trace)) =>
               /\ Delivers(t)
               /\ job' = job]_vars

\* A turn with a picture was answered with a question, the next turn with
\* a picture, too: the stored step was awaiting_followup when the second
\* vision step asked back.
C28_Witness ==
    /\ response.op = "turn"
    /\ ncalls = 2
    /\ meals = <<>>
    /\ VisionAsked(response.trace)
    /\ response.result.kind = "follow_up"
    /\ response.result.questions = <<"describe the image">>
    /\ StoredStep(response.session_id) = "awaiting_followup"
    /\ LiveJobs = {}

\* ---------------------------------------------------------------- C29
\* C29: each write of a call replaces the whole record.  The write of a
\* selection leaves exactly the step done and the id of the meal; a
\* follow-up write of a chat turn leaves the step awaiting_followup and
\* nothing but the vision result, the images and the text of that turn; the
\* record of a chat turn that offers suggestions has no modification
\* history and no pictures of an earlier list; and a modification keeps the
\* history of the record it read, because it copies it, and no pictures.
C29_WriteLeavesOnlyItsFields ==
    [][\A t \in Tasks :
         LET a == task[t]
             new == session_state'[a.session_id]
         IN /\ Steps(t, "s_write") =>
                  new = [step |-> "done", meal_id |-> Outcome(t).result.meal_id]
            /\ (Steps(t, "t_run") /\ Wrote(Outcome(t))
                    /\ Outcome(t).result.kind = "follow_up") =>
                  /\ new.step = "awaiting_followup"
                  /\ DOMAIN new \subseteq {"step", "vision_result",
                                            "image_paths", "original_text"}
                  /\ new.image_paths = a.image_paths
            /\ (Steps(t, "t_run") /\ Wrote(Outcome(t))
                    /\ Outcome(t).result.kind = "suggestions") =>
                  /\ "modifications" \notin DOMAIN new
                  /\ new.suggestions
                        = OutputOf(Outcome(t).trace, "suggest").suggestions
                  /\ new.suggestion_images = NoneD
                  /\ new.image_paths = a.image_paths
            /\ (Steps(t, "m_run") /\ Wrote(Outcome(t))) =>
                  /\ new.suggestions
                        = OutputOf(Outcome(t).trace, "suggest").suggestions
                  /\ new.suggestion_images = NoneD
                  /\ new.modifications
                        = Get(a.state, "modifications", <<>>)
                              \o <<a.modification>>]_vars

\* A selection has just returned its recipe: of the record that buffered
\* the suggestions only the step done and the id of the new meal are left.
C29_Witness ==
    /\ response.op = "select"
    /\ response.result.kind = "recipe"
    /\ Wrote(response)
    /\ Len(meals) = 1
    /\ session_state[response.session_id] = [step |-> "done", meal_id |-> 1]

\* ---------------------------------------------------------------- C30
\* The buffered suggestion that the selection of the call `a` is about: the
\* first one with the requested id in the record the call read.
Selected(a) ==
    LET S == a.state.suggestions
    IN S[CHOOSE i \in DOMAIN S :
            /\ S[i].suggestion_id = a.suggestion_id
            /\ \A k \in 1..(i - 1) : S[k].suggestion_id # a.suggestion_id]
GenerationFailed(recipe) == recipe.warnings # <<>>

\* C30: when the recipe step of a selection fails, the call goes on with a
\* recipe that has the title of the selected suggestion and a warning: it
\* stores one more Meal, with that title and the requested suggestion id,
\* then writes the step done with the id of that Meal and returns the
\* recipe.
C30_FailedRecipeStillCompletes ==
    [][\A t \in Tasks :
         /\ (Steps(t, "s_meal") /\ GenerationFailed(task'[t].recipe)) =>
               LET a == task[t]
                   row == meals'[Len(meals')]
               IN /\ task'[t].pc = "s_write"
                  /\ task'[t].recipe.name = Selected(a).title
                  /\ Len(meals') = Len(meals) + 1
                  /\ SubSeq(meals', 1, Len(meals)) = meals
                  /\ row.title = Selected(a).title
                  /\ row.suggestion_id = a.suggestion_id
                  /\ row.meal_id = task'[t].meal_id
         /\ (Steps(t, "s_write") /\ GenerationFailed(task[t].recipe)) =>
               LET a == task[t]
               IN /\ Outcome(t).result.kind = "recipe"
                  /\ Outcome(t).result.recipe = a.recipe
                  /\ Outcome(t).result.meal_id = a.meal_id
                  /\ session_state'[a.session_id]
                        = [step |-> "done", meal_id |-> a.meal_id]
                  /\ meals' = meals
         /\ Steps(t, "s_commit") => Delivers(t)]_vars

\* A selection whose recipe step failed has returned: the recipe and the
\* Meal have the title of the suggestion, the recipe has the warning, and
\* the session is done.
C30_Witness ==
    /\ response.op = "select"
    /\ response.result.kind = "recipe"
    /\ response.result.recipe.warnings = <<"Error">>
    /\ Len(meals) = 1
    /\ meals[1].meal_id = response.result.meal_id
    /\ meals[1].title = response.result.recipe.name
    /\ meals[1].title # "llm recipe"
    /\ meals[1].suggestion_id \in RequestIds
    /\ session_state[response.session_id]
          = [step |-> "done", meal_id |-> response.result.meal_id]

\* ---------------------------------------------------------------- C31
\* The image job j takes its reading step and goes on, as k, to write.
JobPatches(j, k) ==
    /\ j.pc = "read"
    /\ k.pc = "write"
    /\ job' = (job (-) OneJob(j)) (+) OneJob(k)

\* The image job j takes its writing step.
JobWrites(j) == j.pc = "write" /\ job' = job (-) OneJob(j)

\* The image job j takes its reading step and finds no record to patch.
JobGivesUp(j) == j.pc = "read" /\ job' = job (-) OneJob(j)

\* C31: the write of an image job changes the suggestion_images field of
\* the stored record and nothing else: every other field that is stored
\* when the job writes (the step, the buffered suggestions, the normalized
\* input, the modification history) is the same after the write; and a
\* step of a job that does not write leaves the table alone.
C31_JobChangesOnlyImages ==
    [][\A j \in LiveJobs :
         /\ JobWrites(j) =>
               LET old == session_state[j.session_id]
                   new == session_state'[j.session_id]
               IN /\ DOMAIN new = DOMAIN old \cup {"suggestion_images"}
                  /\ \A k \in DOMAIN old \ {"suggestion_images"} :
                        new[k] = old[k]
         /\ (JobGivesUp(j) \/ \E k \in BagToSet(job') : JobPatches(j, k)) =>
               session_state' = session_state]_vars

\* The job of a batch has written after the selection from that batch: a
\* Meal exists, no call and no job is running, and the stored step is
\* awaiting_selection again, with the pictures.
C31_Witness ==
    \E sid \in SessionIds :
        /\ Quiet
        /\ consumed[sid]
        /\ Len(meals) = 1
        /\ LiveJobs = {}
        /\ \A t \in Tasks : Free(t)
        /\ StoredStep(sid) = "awaiting_selection"
        /\ "suggestion_images" \in DOMAIN session_state[sid]
        /\ session_state[sid].suggestion_images # NoneD

\* ---------------------------------------------------------------- C32
\* C32: a stored step done stays done until a chat turn writes: no other
\* step, and no step of an image job, replaces a record of step done.
C32_DoneStaysDone ==
    [][\A sid \in SessionIds :
         (StoredStep(sid) = "done" /\ StoredStep(sid)' # "done") =>
            \E t \in Tasks :
               /\ Steps(t, "t_run")
               /\ task[t].session_id = sid]_vars

\* One chat turn and two selections: the image job of the turn wrote after
\* the first selection, and the second selection made a second Meal from
\* the same batch.
C32_Witness ==
    /\ ncalls = 3
    /\ response.op = "select"
    /\ response.result.kind = "recipe"
    /\ Len(meals) = 2
    /\ StoredStep(response.session_id) = "done"
    /\ session_state[response.session_id].meal_id = 2

\* ---------------------------------------------------------------- C33

\* C33: the pictures in a record are those of its buffered suggestions.  A
\* job puts a picture under an id only into a record whose buffered
\* suggestion of that id is the suggestion the picture was generated for,
\* and a selection attaches to its Meal the picture that the record it read
\* holds under the selected id.
C33_PictureOfBufferedSuggestion ==
    [][/\ \A j \in LiveJobs, k \in BagToSet(job') :
            JobPatches(j, k) =>
               \A id \in DOMAIN k.state.suggestion_images :
                  FindSuggestion(Get(k.state, "suggestions", <<>>), id)
                      = FindSuggestion(j.suggestions, id)
       /\ \A t \in Tasks :
            Steps(t, "s_meal") =>
               meals'[Len(meals')].generated_image_path
                   = SavedImagePath(Get(Get(task[t].state, "suggestion_images",
                                            NoneD),
                                        task[t].suggestion_id, None))]_vars

\* A chat turn, a modification and a selection: the job of the modification
\* (the second job, started while the first was running) has no pictures
\* yet, the record of the modification holds a picture under the selected
\* id, and the Meal of the new batch has that picture.
C33_Witness ==
    /\ ncalls = 3
    /\ task[1].pc = "s_write"
    /\ "modifications" \in DOMAIN task[1].state
    /\ task[1].suggestion_id \in DOMAIN task[1].state.suggestion_images
    /\ \E j \in LiveJobs :
          /\ LiveJobs = {j}
          /\ j.pc = "read"
          /\ j.suggestions = task[1].state.suggestions
    /\ Len(meals) = 1
    /\ meals[1].generated_image_path # None

\* ---------------------------------------------------------------- C34
\* A chat turn has just returned a blocking FollowUp.
FollowUpReturned(r) ==
    /\ r.op = "turn"
    /\ r.result # NoneD
    /\ r.result.kind = "follow_up"
    /\ r.result.blocking

\* C34 as stated: whenever a chat turn returns a blocking FollowUp, the
\* stored step of its session is awaiting_followup at the return.
C34_FollowUpIsStored ==
    FollowUpReturned(response) =>
        StoredStep(response.session_id) = "awaiting_followup"

\* C34 (as amended): a chat turn that is to return a blocking FollowUp from
\* its vision or normalization step writes a record of step
\* awaiting_followup before it returns, and the return changes no table (so
\* the stored step at the return is awaiting_followup unless another call
\* or an image job has written since); a FollowUp of the suggestion step is
\* returned without a write, so the turn leaves the stored record as it
\* was.  A selection that reads a record of step awaiting_followup fails
\* (no pending selection) and writes nothing.
C34_FollowUpStoredUnlessSuggestionStep ==
    [][\A t \in Tasks :
         /\ (Steps(t, "t_run") /\ FollowUpReturned(Outcome(t))) =>
               IF NoSuggestionButQuestions(Outcome(t))
               THEN /\ task'[t].pc = "idle"
                    /\ session_state' = session_state
               ELSE /\ task'[t].pc = "t_commit"
                    /\ Wrote(Outcome(t))
                    /\ StoredStep(task[t].session_id)' = "awaiting_followup"
         /\ Steps(t, "t_commit") => Delivers(t)
         /\ (/\ Steps(t, "s_read")
             /\ StoredStep(task[t].session_id) = "awaiting_followup") =>
               /\ task'[t].pc = "s_raise"
               /\ Failed(Outcome(t))
               /\ Outcome(t).result.msg = "no_pending_selection"
               /\ session_state' = session_state
               /\ meals' = meals
         /\ Steps(t, "s_raise") => Delivers(t)]_vars

\* The normalization step of a turn asked its questions: the call returns a
\* FollowUp and the record of its session has step awaiting_followup.
C34_Witness ==
    /\ FollowUpReturned(response)
    /\ Wrote(response)
    /\ response.trace[1].ev = "normalize"
    /\ StoredStep(response.session_id) = "awaiting_followup"

\* A turn on a session whose suggestions are buffered returned a FollowUp of
\* the suggestion step: the stored step is still awaiting_selection.
C34_StillSelectable ==
    /\ FollowUpReturned(response)
    /\ NoSuggestionButQuestions(response)
    /\ StoredStep(response.session_id) = "awaiting_selection"

\* ---------------------------------------------------------------- C35
\* Every suggestion of the list is the one a selection of its id resolves to.
AllSelectable(suggestions) ==
    \A i \in DOMAIN suggestions :
        FindSuggestion(suggestions, suggestions[i].suggestion_id)
            = suggestions[i]

\* C35: a record of step awaiting_selection buffers a non-empty suggestion
\* list; the list is put there only by the write of a call that then
\* returns a Suggestions response with exactly the ids of that list, so in
\* every reachable state it is the list the caller was offered on entering
\* the state; and every offered id resolves to its suggestion.
C35_OfferedIsBuffered ==
    [][\A sid \in SessionIds :
         LET old == session_state[sid]
             new == session_state'[sid]
         IN Get(new, "step", None) = "awaiting_selection" =>
              /\ new.suggestions # <<>>
              /\ AllSelectable(new.suggestions)
              /\ (\/ StoredStep(sid) # "awaiting_selection"
                  \/ old.suggestions # new.suggestions) =>
                    \E t \in Tasks :
                       /\ task'[t] # task[t]
                       /\ Outcome(t).session_id = sid
                       /\ Outcome(t).result # NoneD
                       /\ Outcome(t).result.kind = "suggestions"
                       /\ Outcome(t).result.suggestion_ids
                              = SuggestionIdsOf(new.suggestions)]_vars

\* A modification whose suggestion step failed has returned: the caller was
\* offered nothing and the record of step awaiting_selection buffers an
\* empty list in place of the suggestions it had.
C35_Witness ==
    /\ response.op = "modify"
    /\ response.result.kind = "suggestions"
    /\ response.result.suggestion_ids = <<>>
    /\ response.trace[1].out = SuggestFailure
    /\ StoredStep(response.session_id) = "awaiting_selection"
    /\ session_state[response.session_id].suggestions = <<>>
    /\ session_state[response.session_id].modifications # <<>>

\* ---------------------------------------------------------------- C36
\* C36: no stored record of step awaiting_followup or done carries a
\* normalized input.  A modification that reads a record of one of these
\* steps fails with the no-meal-context error (the read settles it, the
\* raise delivers it) and changes nothing, and a modification that goes
\* past its read has read a record of step awaiting_selection.
C36_ModifiesOnlyAwaitingSelection ==
    [][/\ \A sid \in SessionIds :
            Get(session_state'[sid], "step", None)
                \in {"awaiting_followup", "done"} =>
               "normalized_input" \notin DOMAIN session_state'[sid]
       /\ \A t \in Tasks :
            Steps(t, "m_read") =>
               LET step == StoredStep(task[t].session_id)
               IN /\ step \in {"awaiting_followup", "done"} =>
                       /\ task'[t].pc = "m_raise"
                       /\ Failed(Outcome(t))
                       /\ Outcome(t).result.msg = "no_meal_context"
                       /\ session_state' = session_state
                       /\ job' = job
                  /\ task'[t].pc = "m_run" => step = "awaiting_selection"
       /\ \A t \in Tasks :
            Steps(t, "m_raise") => (Delivers(t) /\ job' = job)]_vars

\* A modification was refused for want of a meal context on a session whose
\* selection is made: the record has step done and names the Meal.
C36_Witness ==
    /\ response.op = "modify"
    /\ Failed(response)
    /\ response.result.msg = "no_meal_context"
    /\ StoredStep(response.session_id) = "done"
    /\ session_state[response.session_id].meal_id = Len(meals)

\* ---------------------------------------------------------------- C37
\* C37: a record of step done names the meal_id of a stored Meal.  Meals are
\* never removed or changed; a Meal is stored by a selection, before that
\* selection writes the done record with the Meal's id, and its
\* suggestion_id is the id of a suggestion buffered in the record that the
\* selection read.
C37_DoneNamesStoredMeal ==
    [][/\ \A sid \in SessionIds :
            Get(session_state'[sid], "step", None) = "done" =>
               \E i \in DOMAIN meals' :
                  meals'[i].meal_id = session_state'[sid].meal_id
       /\ IsPrefix(meals, meals')
       /\ meals' # meals =>
            \E t \in Tasks :
               /\ Steps(t, "s_meal")
               /\ meals' = Append(meals, meals'[Len(meals')])
               /\ task'[t].meal_id = meals'[Len(meals')].meal_id
               /\ meals'[Len(meals')].suggestion_id = task[t].suggestion_id
               /\ task[t].suggestion_id \in BufferedIds(task[t].state)
       /\ \A t \in Tasks :
            Steps(t, "s_write") =>
               /\ session_state'[task[t].session_id] = DoneState(task[t].meal_id)
               /\ GetMeal(task[t].meal_id) # NoneD
               /\ GetMeal(task[t].meal_id).suggestion_id
                      \in BufferedIds(task[t].state)]_vars

\* Two selections were made from one batch by two callers at once: the
\* record has step done and names the Meal of the second suggestion, the
\* other Meal is stored as well.
C37_Witness ==
    /\ \E sid \in SessionIds :
         /\ StoredStep(sid) = "done"
         /\ GetMeal(session_state[sid].meal_id) # NoneD
         /\ GetMeal(session_state[sid].meal_id).suggestion_id = "sug_2"
    /\ Len(meals) = 2
    /\ meals[1].suggestion_id = "sug_1"
    /\ \A t \in Tasks : Free(t)

\* ---------------------------------------------------------------- C38
\* One caller submits the same feedback for the same meal again and again,
\* each submission after the one before it has returned.
ReplayArgs ==
    [meal_id |-> 1, liked |-> FALSE, cooked_again |-> FALSE,
     tags |-> <<"easy", "simple">>, notes |-> "bland"]

ReplayStart ==
    /\ Quiet
    /\ nfeedback < MaxReplays
    /\ \A t \in Tasks : FeedbackFree(t)
    /\ fb' = [fb EXCEPT ![1] =
                [IdleFeedback EXCEPT !.pc = "f_meal",
                                     !.meal_id = ReplayArgs.meal_id,
                                     !.liked = ReplayArgs.liked,
                                     !.cooked_again = ReplayArgs.cooked_again,
                                     !.tags = ReplayArgs.tags,
                                     !.notes = ReplayArgs.notes]]
    /\ nfeedback' = nfeedback + 1
    /\ UNCHANGED <<meals, response, profile, preference_facts, outcomes,
                   memory_items, vector_ids, conv, clock, nrequests, applied>>
    /\ UNCHANGED sessionVars

ReplayNext ==
    \/ Respond
    \/ ReplayStart
    \/ FeedbackMeal(1)
    \/ FeedbackOutcome(1)
    \/ FeedbackLearn(1)
    \/ FeedbackMemory(1)
    \/ FeedbackVector(1)
    \/ FeedbackFact(1)
    \/ FeedbackPatch(1)
    \/ FeedbackReread(1)
    \/ FeedbackReturn(1)

ReplaySpec == FeedbackInit /\ [][ReplayNext]_vars

\* n * x of an integer n >= 0 and a double x, as Python computes it: the
\* exact product rounded to a double.
RECURSIVE TimesWide(_, _)
TimesWide(n, m) ==
    IF n = 0 THEN Wide(0, 0) ELSE AddFrom(TimesWide(n - 1, m), m, 1, 0)
FloatTimes(n, x) ==
    IF x.int = 0 \/ n = 0 THEN FloatZero
    ELSE RoundBits(x.neg, TimesWide(n, Mantissa(x)), x.exp - 52)

RECURSIVE Repeated(_, _)
Repeated(s, n) == IF n = 0 THEN <<>> ELSE Repeated(s, n - 1) \o s

\* What the learning step answers to the replayed submission when it gives
\* the same (the fallback's) answer each time, and the deltas of that answer
\* on one key, in order.
ReplayLearned ==
    FallbackLearning(meals[1].title, meals[1].tags, ReplayArgs.liked,
                     ReplayArgs.cooked_again, ReplayArgs.tags)
ReplayDeltas(k) ==
    LET facts == SelectSeq(ReplayLearned.preference_facts,
                           LAMBDA f : f.fact_key = k)
    IN [i \in DOMAIN facts |-> facts[i].delta_strength]
ReplayKeys ==
    {ReplayLearned.preference_facts[i].fact_key :
        i \in DOMAIN ReplayLearned.preference_facts}

\* The submissions that have returned after learning that answer: each
\* appended the one memory item of the answer.
Replays == Len(memory_items) \div Len(ReplayLearned.memory_items)
ReplayReturned == \A t \in Tasks : FeedbackFree(t)

\* C38 as stated: after n submissions of the same feedback that learned the
\* same answer, the strength of every affected fact is n times the delta of
\* one submission.
C38_StrengthIsNTimesDelta ==
    (ReplayReturned /\ Replays > 0) =>
        \A k \in ReplayKeys :
            preference_facts[k]
                = FloatTimes(Replays, FloatSum(ReplayDeltas(k)))

\* C38: feedback is applied again at every submission.  After n submissions
\* of the same feedback for the same meal that learned the same answer,
\* every affected fact's strength is the running double sum of the deltas of
\* the n submissions, each added to the stored value in turn; the memory
\* items are those of the answer, n times, each with an id of its own; and
\* the meal has one outcome record.  A submission whose learning step
\* answered otherwise added what that answer held (here: nothing).
C38_ReplayAddsAgain ==
    ReplayReturned =>
        /\ Len(memory_items) = Replays * Len(ReplayLearned.memory_items)
        /\ Replays <= nfeedback
        /\ \A i \in DOMAIN memory_items :
              /\ memory_items[i].memory_id = i
              /\ memory_items[i].text = ReplayLearned.memory_items[1].text
              /\ memory_items[i].source_meal_id = ReplayArgs.meal_id
        /\ DOMAIN preference_facts
               = IF Replays = 0 THEN {} ELSE ReplayKeys
        /\ \A k \in DOMAIN preference_facts :
              /\ Key(k) = Repeated(ReplayDeltas(k), Replays)
              /\ preference_facts[k] = FloatSum(Key(k))
        /\ DOMAIN outcomes = IF nfeedback = 0 THEN {} ELSE {ReplayArgs.meal_id}

\* Three submissions have returned, each after learning the same answer:
\* three memory items, one outcome record, and likes:easy_recipes has
\* received 0.2 six times, which is 1.2 where 3 * 0.4 is 1.2000000000000002.
C38_Witness ==
    /\ ReplayReturned
    /\ nfeedback = 3
    /\ Replays = 3
    /\ Len(memory_items) = 3
    /\ DOMAIN outcomes = {1}
    /\ Len(Key(<<"likes", "easy_recipes">>)) = 6
    /\ preference_facts[<<"likes", "easy_recipes">>]
           # FloatTimes(3, FloatSum(ReplayDeltas(<<"likes", "easy_recipes">>)))

====
